---- MODULE Spec2Model ----
(***************************************************************************)
(* A model of PyAutoFit's parameter-space mapper (autofit/mapper/          *)
(* model_mapper.py) and of its search drivers (autofit/optimize/           *)
(* non_linear.py).                                                         *)
(*                                                                         *)
(* Prior objects are handles 1..Len(priors); priors[h] holds the fields of *)
(* the object.  Vectors are presented with the unit values 0 and 1, on     *)
(* which a uniform prior is exact integer arithmetic.                      *)
(***************************************************************************)
EXTENDS Integers, Sequences, FiniteSets, TLC

VARIABLES
    mapper_dict,   \* ModelMapper.__dict__: the prior models, in insertion order
    object_dict,   \* ModelMapper.__dict__: the already-built objects, in insertion order
    priors,        \* every Prior object created so far, by handle
    ids,           \* the next value of the creation counter shared by model objects
    ret            \* the last call made on the mapper and what it gave

VARIABLES
    driver,        \* the optimizer class whose fit() is run
    config,        \* the intervals of the general config and the run's step size
    pc,            \* "initialized", "running", "completed" or "failed"
    raised,        \* the exception that left fit(), "none" if none did
    fitness,       \* the fields of the fitness adapter
    checkpoint,    \* the lines of the .checkpoint file, <<>> when there is no file
    previous,      \* what the run that wrote the checkpoint had recorded
    observed,      \* the adapter calls and likelihoods seen so far in this run
    last,          \* the last evaluation: its input, its outcome, its side effects
    result,        \* the Result fit() returned
    analysis,      \* a deterministic analysis: what fit does at each point of the grid
    uninterrupted, \* a run kept to compare with: where it was cut, how it ended
    disk,          \* the backup folder, and whether copying a file fails
    threads,       \* the threads inside fit_instance: their position and locals
    nlo            \* an optimizer object and the copy made of it

mapper_vars == <<mapper_dict, object_dict, priors, ids, ret>>
search_vars == <<driver, config, pc, raised, fitness, checkpoint, previous,
                 observed, last, result, analysis, uninterrupted, disk,
                 threads, nlo>>
vars == <<mapper_vars, search_vars>>

-----------------------------------------------------------------------------
(* Bounds of the model. *)

MaxPriors == 3      \* prior objects created in one behaviour

PriorModelNames == {"one", "two"}
FieldSeq == <<"redshift", "intensity">>
Fields == {FieldSeq[i] : i \in 1..Len(FieldSeq)}
\* The unit values presented to a mapper: the two ends of the unit interval.
Units == {0, 1}
\* The limits a user gives a UniformPrior.
Limits == {<<1, 3>>}

Min(a, b) == IF a < b THEN a ELSE b

-----------------------------------------------------------------------------
(* Priors and prior models (autofit/mapper/prior.py, prior_model.py). *)

\* UniformPrior.value_for: linear interpolation between the limits.
value_for(h, unit) ==
    priors[h].lower_limit
        + unit * (priors[h].upper_limit - priors[h].lower_limit)

IsPrior(v) == v[1] = "prior"

\* PriorModel.prior_tuples: the priors of one prior model, in field order.
RECURSIVE pm_prior_tuples_from(_, _)
pm_prior_tuples_from(pm, i) ==
    IF i > Len(FieldSeq) THEN <<>>
    ELSE (IF IsPrior(pm[FieldSeq[i]])
          THEN <<[name |-> FieldSeq[i], prior |-> pm[FieldSeq[i]][2]]>>
          ELSE <<>>) \o pm_prior_tuples_from(pm, i + 1)

pm_prior_tuples(pm) == pm_prior_tuples_from(pm, 1)

\* PriorModel.instance_for_arguments: the object built from the values of
\* the priors; a prior without a value is a KeyError.
pm_resolvable(pm, arguments) ==
    \A f \in Fields : IsPrior(pm[f]) => pm[f][2] \in DOMAIN arguments

pm_instance_for_arguments(pm, arguments) ==
    [f \in Fields |-> IF IsPrior(pm[f]) THEN arguments[pm[f][2]]
                      ELSE pm[f][2]]

-----------------------------------------------------------------------------
(* ModelMapper. *)

\* The two filters of __dict__.items(): the prior models, and the objects
\* that are not prior models.
prior_model_tuples == mapper_dict
instance_tuples == object_dict

\* What a dict comprehension does with one more (key, value): a key already
\* present keeps its place and takes the new value.
dict_put(acc, t) ==
    IF \E i \in 1..Len(acc) : acc[i].prior = t.prior
    THEN [i \in 1..Len(acc) |-> IF acc[i].prior = t.prior THEN t ELSE acc[i]]
    ELSE Append(acc, t)

RECURSIVE dict_values(_, _)
dict_values(L, acc) ==
    IF L = <<>> THEN acc ELSE dict_values(Tail(L), dict_put(acc, Head(L)))

RECURSIVE all_prior_tuples(_)
all_prior_tuples(i) ==
    IF i > Len(prior_model_tuples) THEN <<>>
    ELSE pm_prior_tuples(prior_model_tuples[i].prior_model)
            \o all_prior_tuples(i + 1)

\* A list in place of the dict: a shared prior is listed once per field.
prior_tuples_as_list == all_prior_tuples(1)

prior_tuples == dict_values(all_prior_tuples(1), <<>>)

\* sorted(..., key=...): a stable insertion by key.
sorted_insert(s, t) ==
    LET n == Cardinality({i \in 1..Len(s) :
                             priors[s[i].prior].id <= priors[t.prior].id})
    IN  SubSeq(s, 1, n) \o <<t>> \o SubSeq(s, n + 1, Len(s))

RECURSIVE sorted_by_id(_, _)
sorted_by_id(L, acc) ==
    IF L = <<>> THEN acc ELSE sorted_by_id(Tail(L), sorted_insert(acc, Head(L)))

\* The sort left out: the priors in the order the dict holds them.
prior_tuples_unsorted == prior_tuples

prior_tuples_ordered_by_id == sorted_by_id(prior_tuples, <<>>)

prior_count == Len(prior_tuples_ordered_by_id)

\* map(f, xs, ys) stops at the shorter of its two sequences.
map_length(xs, ys) == Min(Len(xs), Len(ys))

\* dict(pairs): the last value given for a key is the one kept.
dict_from_pairs(pairs) ==
    [k \in {pairs[i][1] : i \in 1..Len(pairs)} |->
        LET latest == CHOOSE i \in 1..Len(pairs) :
                        /\ pairs[i][1] = k
                        /\ \A j \in 1..Len(pairs) : pairs[j][1] = k => j <= i
        IN  pairs[latest][2]]

\* The loop over instance_tuples left out: the prior models only.
instance_for_arguments_prior_models_only(arguments) ==
    IF \A i \in 1..Len(prior_model_tuples) :
           pm_resolvable(prior_model_tuples[i].prior_model, arguments)
    THEN [status |-> "ok",
          instance |-> [i \in 1..Len(prior_model_tuples) |->
              [name |-> prior_model_tuples[i].name,
               object |-> pm_instance_for_arguments(
                              prior_model_tuples[i].prior_model, arguments)]]]
    ELSE [status |-> "KeyError", instance |-> <<>>]

\* A ModelInstance, its attributes in the order they are set: one object per
\* prior model, then the already-built objects as they are.
instance_for_arguments(arguments) ==
    IF \A i \in 1..Len(prior_model_tuples) :
           pm_resolvable(prior_model_tuples[i].prior_model, arguments)
    THEN [status |-> "ok",
          instance |-> [i \in 1..Len(prior_model_tuples) |->
              [name |-> prior_model_tuples[i].name,
               object |-> pm_instance_for_arguments(
                              prior_model_tuples[i].prior_model, arguments)]]
              \o [k \in 1..Len(instance_tuples) |->
                    [name |-> instance_tuples[k].name,
                     object |-> instance_tuples[k].value]]]
    ELSE [status |-> "KeyError", instance |-> <<>>]

physical_vector_from_hypercube_vector(hypercube_vector) ==
    LET pts == prior_tuples_ordered_by_id
    IN  [i \in 1..map_length(pts, hypercube_vector) |->
            value_for(pts[i].prior, hypercube_vector[i])]

instance_from_unit_vector(unit_vector) ==
    LET pts == prior_tuples_ordered_by_id
    IN  instance_for_arguments(dict_from_pairs(
            [i \in 1..map_length(pts, unit_vector) |->
                <<pts[i].prior, value_for(pts[i].prior, unit_vector[i])>>]))

\* The values matched with the priors in dict order, not in id order.
instance_from_physical_vector_dict_order(physical_vector) ==
    LET pts == prior_tuples
    IN  instance_for_arguments(dict_from_pairs(
            [i \in 1..map_length(pts, physical_vector) |->
                <<pts[i].prior, physical_vector[i]>>]))

instance_from_physical_vector(physical_vector) ==
    LET pts == prior_tuples_ordered_by_id
    IN  instance_for_arguments(dict_from_pairs(
            [i \in 1..map_length(pts, physical_vector) |->
                <<pts[i].prior, physical_vector[i]>>]))

-----------------------------------------------------------------------------
(* The operations on a mapper. *)

NoCall == [op |-> "none"]

HasName(name) == \E i \in 1..Len(mapper_dict) : mapper_dict[i].name = name
IndexOf(name) == CHOOSE i \in 1..Len(mapper_dict) : mapper_dict[i].name = name
FieldOf(name, f) == mapper_dict[IndexOf(name)].prior_model[f]

NewPrior(limits) ==
    [id |-> ids, lower_limit |-> limits[1], upper_limit |-> limits[2]]

\* dict.__setitem__: a new key goes last, a key already present keeps its place.
dict_set(d, name, value) ==
    IF \E i \in 1..Len(d) : d[i].name = name
    THEN [i \in 1..Len(d) |-> IF d[i].name = name
                              THEN [name |-> name, prior_model |-> value]
                              ELSE d[i]]
    ELSE Append(d, [name |-> name, prior_model |-> value])

SetField(name, f, v) ==
    dict_set(mapper_dict, name,
             [mapper_dict[IndexOf(name)].prior_model EXCEPT ![f] = v])

\* An object nothing refers to any more is freed.
Freed == [id |-> -1, lower_limit |-> 0, upper_limit |-> 0]

Collect(d, ps) ==
    [h \in 1..Len(ps) |->
        IF \E i \in 1..Len(d), f \in Fields : d[i].prior_model[f] = <<"prior", h>>
        THEN ps[h] ELSE Freed]

\* mapper.name = cls, for a name not yet used: a prior model of the class, a
\* default prior on its first field and the constant 0 on the others.
SetAttrClass(name) ==
    /\ ret = NoCall
    /\ ~HasName(name)
    /\ Len(priors) < MaxPriors
    /\ mapper_dict' = dict_set(mapper_dict, name,
           [f \in Fields |-> IF f = FieldSeq[1]
                             THEN <<"prior", Len(priors) + 1>>
                             ELSE <<"constant", 0>>])
    /\ priors' = Collect(mapper_dict', Append(priors,
                     [id |-> ids + 1, lower_limit |-> 0, upper_limit |-> 1]))
    /\ ids' = ids + 2
    /\ ret' = NoCall
    /\ UNCHANGED object_dict
    /\ UNCHANGED search_vars

\* The already-built objects a user assigns, and the names they are given.
InstanceNames == {"mock_class", "galaxy"}
Objects == {[f \in Fields |-> v] : v \in {1, 2}}

\* mapper.name = obj, for a name not yet used and an object that is not a
\* class, a prior model, a list or a dict: from_object keeps it as it is.
SetAttrObject(name, obj) ==
    /\ ret = NoCall
    /\ ~HasName(name)
    /\ \A k \in 1..Len(object_dict) : object_dict[k].name # name
    /\ object_dict' = Append(object_dict, [name |-> name, value |-> obj])
    /\ ret' = NoCall
    /\ UNCHANGED <<mapper_dict, priors, ids>>
    /\ UNCHANGED search_vars

\* mapper.name.f = UniformPrior(lower_limit, upper_limit)
SetPrior(name, f, limits) ==
    /\ ret = NoCall
    /\ HasName(name)
    /\ Len(priors) < MaxPriors
    /\ mapper_dict' = SetField(name, f, <<"prior", Len(priors) + 1>>)
    /\ priors' = Collect(mapper_dict', Append(priors, NewPrior(limits)))
    /\ ids' = ids + 1
    /\ ret' = NoCall
    /\ UNCHANGED object_dict
    /\ UNCHANGED search_vars

\* mapper.name.f = mapper.other.g, the field other.g holding a prior
SharePrior(name, f, other, g) ==
    /\ ret = NoCall
    /\ HasName(name) /\ HasName(other)
    /\ <<name, f>> # <<other, g>>
    /\ IsPrior(FieldOf(other, g))
    /\ FieldOf(name, f) # FieldOf(other, g)
    /\ mapper_dict' = SetField(name, f, FieldOf(other, g))
    /\ priors' = Collect(mapper_dict', priors)
    /\ ret' = NoCall
    /\ UNCHANGED <<ids, object_dict>>
    /\ UNCHANGED search_vars

\* The vectors a caller presents: of the right length, one entry short, or
\* with one entry too many.
VectorsOf(n) == IF n = 0 THEN {<<>>} ELSE [1..n -> Units]
CallVectors ==
    VectorsOf(prior_count)
        \cup {SubSeq(v, 1, Len(v) - 1) : v \in VectorsOf(prior_count) \ {<<>>}}
        \cup {Append(v, 0) : v \in VectorsOf(prior_count)}

CallPhysicalVector(v) ==
    /\ ret = NoCall
    /\ ret' = [op |-> "physical_vector_from_hypercube_vector", arg |-> v,
               out |-> [status |-> "ok",
                        vector |-> physical_vector_from_hypercube_vector(v)]]
    /\ UNCHANGED <<mapper_dict, object_dict, priors, ids>>
    /\ UNCHANGED search_vars

CallInstanceFromUnit(v) ==
    /\ ret = NoCall
    /\ ret' = [op |-> "instance_from_unit_vector", arg |-> v,
               out |-> instance_from_unit_vector(v)]
    /\ UNCHANGED <<mapper_dict, object_dict, priors, ids>>
    /\ UNCHANGED search_vars

CallInstanceFromPhysical(v) ==
    /\ ret = NoCall
    /\ ret' = [op |-> "instance_from_physical_vector", arg |-> v,
               out |-> instance_from_physical_vector(v)]
    /\ UNCHANGED <<mapper_dict, object_dict, priors, ids>>
    /\ UNCHANGED search_vars

\* Both routes from one unit vector to an instance.
CallBothRoutes(v) ==
    /\ ret = NoCall
    /\ ret' = [op |-> "both_routes", arg |-> v,
               out |-> instance_from_unit_vector(v),
               via_physical |-> instance_from_physical_vector(
                                    physical_vector_from_hypercube_vector(v))]
    /\ UNCHANGED <<mapper_dict, object_dict, priors, ids>>
    /\ UNCHANGED search_vars

\* ModelMapper.priors of a mapper holding these prior models: the priors in
\* the order the dict of prior_tuples holds them.
RECURSIVE prior_tuples_of(_)
prior_tuples_of(pmts) ==
    IF pmts = <<>> THEN <<>>
    ELSE pm_prior_tuples(Head(pmts).prior_model) \o prior_tuples_of(Tail(pmts))

priors_of(pmts) ==
    LET pts == dict_values(prior_tuples_of(pmts), <<>>)
    IN  [i \in 1..Len(pts) |-> pts[i].prior]

\* ModelMapper.__eq__ against another mapper: two comparisons of lists, one
\* of the priors and one of the (name, prior model) tuples.  Priors are equal
\* when they are the same object, prior models when their fields are equal.
__eq__(other) ==
    /\ priors_of(prior_model_tuples) = priors_of(other)
    /\ prior_model_tuples = other

Reversed(d) == [i \in 1..Len(d) |-> d[Len(d) + 1 - i]]

\* The mappers this one is compared with: a mapper that was given the same
\* prior models in the same order, or in the opposite order, one that lacks
\* the last of them, and one whose first prior model has constants only.
OtherMappers ==
    {mapper_dict, Reversed(mapper_dict)}
        \cup (IF mapper_dict = <<>> THEN {}
              ELSE {SubSeq(mapper_dict, 1, Len(mapper_dict) - 1),
                    [mapper_dict EXCEPT ![1].prior_model =
                        [f \in Fields |-> <<"constant", 0>>]]})

\* mapper == other
CallEq(other) ==
    /\ ret = NoCall
    /\ ret' = [op |-> "__eq__", arg |-> other, out |-> __eq__(other)]
    /\ UNCHANGED <<mapper_dict, object_dict, priors, ids>>
    /\ UNCHANGED search_vars

\* The caller drops the result of its last call.
Discard ==
    /\ ret # NoCall
    /\ ret' = NoCall
    /\ UNCHANGED <<mapper_dict, object_dict, priors, ids>>
    /\ UNCHANGED search_vars

-----------------------------------------------------------------------------
(* The search drivers (autofit/optimize/non_linear.py).                    *)
(*                                                                         *)
(* Likelihoods are integers; NegInf and PosInf stand for -np.inf and       *)
(* np.inf and compare below and above every likelihood.  Step sizes are    *)
(* written in hundredths.                                                  *)

MaxLikelihood == 2     \* the likelihoods an analysis returns are 1..MaxLikelihood
MaxInterval == 2       \* the configured intervals are -1 and 1..MaxInterval
MaxCalls == 3          \* calls an external optimizer makes to the adapter

NegInf == -999
PosInf == 999

Likelihoods == {NegInf} \cup (1..MaxLikelihood)
Intervals == {-1} \cup (1..MaxInterval)
StepSizes == {50, 100}

\* An exception of the analysis that is not a FitException.
OtherExceptions == {"ValueError"}

\* What analysis.fit(instance) does: it returns a likelihood or raises.
Outcomes ==
    {[raises |-> "none", likelihood |-> l] : l \in Likelihoods}
        \cup {[raises |-> e, likelihood |-> NegInf] :
                  e \in {"FitException"} \cup OtherExceptions}

\* A bare except in place of the clause: whatever the analysis raises.
catches_everything(outcome) == outcome.raises # "none"

\* except exc.FitException, the clause of the three adapters.
catches(outcome) == outcome.raises = "FitException"

NoCube == <<>>        \* best_cube = None
\* No mapper: variable = None, or a refinement that raised.
NoMapper == [status |-> "none", mapper_dict |-> <<>>, priors |-> <<>>, created |-> 0]
NoResult == [is_none |-> TRUE, constant |-> <<>>, figure_of_merit |-> NegInf,
             variable |-> NoMapper, instances |-> <<>>]

\* Result(constant, figure_of_merit)
Result(constant, figure_of_merit) ==
    [is_none |-> FALSE, constant |-> constant, figure_of_merit |-> figure_of_merit,
     variable |-> NoMapper, instances |-> <<>>]

\* IntervalCounter(interval)
IntervalCounter(interval) == [count |-> 0, interval |-> interval]

\* IntervalCounter.__call__: the counter afterwards and what the call returned.
IntervalCounter_call(c) ==
    IF c.interval = -1
    THEN [counter |-> c, fired |-> FALSE]
    ELSE [counter |-> [c EXCEPT !.count = c.count + 1],
          fired |-> (c.count + 1) % c.interval = 0]

\* NonLinearOptimizer.Fitness.__init__, with the fields its subclasses add.
Fitness(checkpoint_count, best_fit, best_cube) ==
    [result |-> NoResult,
     max_likelihood |-> NegInf,
     should_visualise |-> IntervalCounter(config.visualise_interval),
     should_backup |-> IntervalCounter(config.backup_interval),
     accepted_samples |-> 0,
     total_calls |-> 0,
     checkpoint_count |-> checkpoint_count,
     best_fit |-> best_fit,
     best_cube |-> best_cube,
     all_fits |-> <<>>,
     should_save_grid_results |-> IntervalCounter(config.grid_results_interval)]

\* Fitness.fit_instance asks should_visualise() only inside the branch of an
\* improved likelihood.
visualise_gate(f, improved) ==
    IF improved THEN IntervalCounter_call(f.should_visualise)
    ELSE [counter |-> f.should_visualise, fired |-> FALSE]

\* Fitness.fit_instance once analysis.fit has returned `likelihood`: the
\* adapter afterwards and the side effects that ran.
fit_instance(f, instance, likelihood) ==
    LET improved == likelihood > f.max_likelihood
        f1 == IF improved
              THEN [f EXCEPT !.max_likelihood = likelihood,
                             !.result = Result(instance, likelihood)]
              ELSE f
        vis == visualise_gate(f1, improved)
        bak == IntervalCounter_call(f1.should_backup)
    IN  [fitness |-> [f1 EXCEPT !.should_visualise = vis.counter,
                                !.should_backup = bak.counter],
         visualized |-> vis.fired,
         backed_up |-> bak.fired]

\* -2 * likelihood
minus_two_times(likelihood) ==
    IF likelihood = NegInf THEN PosInf ELSE (-2) * likelihood

-----------------------------------------------------------------------------
(* The checkpoint file: five lines, each the text of one value. *)

DigitChars == <<"0", "1", "2", "3", "4", "5", "6", "7", "8", "9">>
IsDigit(c) == \E d \in 1..Len(DigitChars) : DigitChars[d] = c
DigitValue(c) == (CHOOSE d \in 1..Len(DigitChars) : DigitChars[d] = c) - 1

RECURSIVE format_natural(_)
format_natural(n) ==
    IF n < Len(DigitChars) THEN <<DigitChars[n + 1]>>
    ELSE Append(format_natural(n \div Len(DigitChars)),
                DigitChars[(n % Len(DigitChars)) + 1])

\* "{}".format(number)
format_number(x) ==
    IF x = NegInf THEN <<"-", "i", "n", "f">>
    ELSE IF x < 0 THEN <<"-">> \o format_natural(-x)
    ELSE format_natural(x)

RECURSIVE parse_natural(_)
parse_natural(text) ==
    IF Len(text) = 1 THEN DigitValue(text[1])
    ELSE parse_natural(SubSeq(text, 1, Len(text) - 1)) * Len(DigitChars)
            + DigitValue(text[Len(text)])

\* int(text), float(text)
parse_number(text) ==
    IF text = <<"-", "i", "n", "f">> THEN NegInf
    ELSE IF text[1] = "-" THEN -parse_natural(Tail(text))
    ELSE parse_natural(text)

\* "{}".format(cube) of a tuple of one-digit entries, or of None
RECURSIVE format_entries(_)
format_entries(cube) ==
    IF Len(cube) = 1 THEN format_natural(cube[1])
    ELSE format_natural(cube[1]) \o <<",", " ">> \o format_entries(Tail(cube))

format_cube(cube) ==
    IF cube = NoCube THEN <<"N", "o", "n", "e">>
    ELSE IF Len(cube) = 1 THEN <<"(">> \o format_natural(cube[1]) \o <<",", ")">>
    ELSE <<"(">> \o format_entries(cube) \o <<")">>

\* ast.literal_eval(text) of such a text
RECURSIVE parse_entries(_)
parse_entries(text) ==
    IF text = <<>> THEN <<>>
    ELSE IF IsDigit(Head(text))
         THEN <<DigitValue(Head(text))>> \o parse_entries(Tail(text))
         ELSE parse_entries(Tail(text))

parse_cube(text) ==
    IF text = <<"N", "o", "n", "e">> THEN NoCube ELSE parse_entries(text)

\* GridSearch.save_checkpoint: the file it leaves.
save_checkpoint(total_calls, best_fit, best_cube, step_size, count) ==
    <<format_number(total_calls), format_number(best_fit), format_cube(best_cube),
      format_number(step_size), format_number(count)>>

\* A file that exists and holds no byte: open(path, "w+") before any write.
EmptyFile == <<<<>>>>

\* The file a process killed inside save_checkpoint leaves: the file was
\* truncated when it was opened and holds the first k lines of the record.
truncated(record, k) == IF k = 0 THEN EmptyFile ELSE SubSeq(record, 1, k)

is_checkpoint == checkpoint # <<>>
checkpoint_array == IF checkpoint = EmptyFile THEN <<>> ELSE checkpoint
checkpoint_count == parse_number(checkpoint_array[1])
\* The best fit of the record left unread.
checkpoint_fit_unread == NegInf

checkpoint_fit == parse_number(checkpoint_array[2])
checkpoint_cube == parse_cube(checkpoint_array[3])
checkpoint_step_size == parse_number(checkpoint_array[4])
checkpoint_prior_count == parse_number(checkpoint_array[5])

-----------------------------------------------------------------------------
(* Refinement: a new mapper with Gaussian priors.                          *)
(*                                                                         *)
(* The mapper returned is a value of its own: its fields hold handles into *)
(* its own sequence of GaussianPrior objects.  An argument that is None is *)
(* written <<>>, a number x is written <<x>>.                              *)

None == <<>>
\* The first mean and the width a posterior summary gives, and the widths a
\* caller asks for.
Means == {-1, 2}
Widths == {0, 3}
AbsoluteWidths == {None, <<2>>}
RelativeWidths == {None, <<1>>}

Max(a, b) == IF a > b THEN a ELSE b

\* conf.instance.prior_width.get_for_nearest_ancestor(cls, name): absolute on
\* the first field of the class, relative on the others.
prior_width_config(name) == IF name = FieldSeq[1] THEN <<"a", 1>> ELSE <<"r", 2>>

\* conf.instance.prior_limit.get_for_nearest_ancestor(cls, name)
prior_limit_config(name) == <<NegInf, PosInf>>

\* The width type and value mapper_from_gaussian_tuples settles on for a prior.
width_type_and_value(a, r, name) ==
    IF a # None THEN <<"a", a[1]>>
    ELSE IF r # None THEN <<"r", r[1]>>
    ELSE prior_width_config(name)

\* A relative width taken as it is, not multiplied by the mean.
policy_width_never_relative(a, r, mean, name) ==
    width_type_and_value(a, r, name)[2]

\* width = value * mean for type "r", width = value for type "a"
policy_width(a, r, mean, name) ==
    LET tv == width_type_and_value(a, r, name)
    IN  IF tv[1] = "r" THEN tv[2] * mean ELSE tv[2]

\* The exception iteration i of the loop of mapper_from_gaussian_tuples ends
\* in, "none" if it ends in none.
gaussian_tuple_raises(i, name, tuples, a, r) ==
    IF i > Len(tuples) THEN "IndexError"
    ELSE IF a # None /\ r # None THEN "PriorException"
    ELSE IF width_type_and_value(a, r, name)[1] \notin {"a", "r"}
         THEN "PriorException"
    ELSE "none"

\* The new priors numbered against the order of their creation.
GaussianPrior_ids_reversed(i, name, tuples, a, r) ==
    [id |-> ids + prior_count - i,
     mean |-> tuples[i][1],
     sigma |-> Max(tuples[i][2], policy_width(a, r, tuples[i][1], name)),
     lower_limit |-> prior_limit_config(name)[1],
     upper_limit |-> prior_limit_config(name)[2]]

\* GaussianPrior(mean, max(tuples[i][1], width), *limits), the i-th object
\* the call creates.
GaussianPrior(i, name, tuples, a, r) ==
    [id |-> ids + i - 1,
     mean |-> tuples[i][1],
     sigma |-> Max(tuples[i][2], policy_width(a, r, tuples[i][1], name)),
     lower_limit |-> prior_limit_config(name)[1],
     upper_limit |-> prior_limit_config(name)[2]]

\* PriorModel.gaussian_prior_model_for_arguments: a copy of the prior model
\* with every prior replaced by the one the arguments give for it.
pm_gaussian_prior_model_for_arguments(pm, arguments) ==
    [f \in Fields |-> IF IsPrior(pm[f]) THEN <<"prior", arguments[pm[f][2]]>>
                      ELSE pm[f]]

\* mapper_from_prior_arguments: arguments[h] is the handle, in new_priors, of
\* the prior that replaces the prior h.
mapper_from_prior_arguments(arguments, new_priors) ==
    IF \A i \in 1..Len(prior_model_tuples) :
           pm_resolvable(prior_model_tuples[i].prior_model, arguments)
    THEN [status |-> "ok",
          mapper_dict |-> [i \in 1..Len(prior_model_tuples) |->
              [name |-> prior_model_tuples[i].name,
               prior_model |-> pm_gaussian_prior_model_for_arguments(
                                   prior_model_tuples[i].prior_model, arguments)]],
          priors |-> new_priors,
          created |-> Len(new_priors)]
    ELSE [NoMapper EXCEPT !.status = "KeyError", !.created = Len(new_priors)]

\* One new prior taken for every prior of the mapper.
gaussian_arguments_one_for_all(pts) ==
    [h \in {pts[i].prior : i \in 1..Len(pts)} |-> 1]

\* arguments[prior] = GaussianPrior(...): the i-th new prior for the i-th prior.
gaussian_arguments(pts) ==
    [h \in {pts[i].prior : i \in 1..Len(pts)} |->
        CHOOSE i \in 1..Len(pts) : pts[i].prior = h]

mapper_from_gaussian_tuples(tuples, a, r) ==
    LET pts == prior_tuples_ordered_by_id
        raising == {i \in 1..Len(pts) :
                       gaussian_tuple_raises(i, pts[i].name, tuples, a, r) # "none"}
        first == CHOOSE i \in raising : \A j \in raising : i <= j
    IN  IF raising # {}
        THEN [NoMapper EXCEPT
                 !.status = gaussian_tuple_raises(first, pts[first].name, tuples, a, r),
                 !.created = first - 1]
        ELSE mapper_from_prior_arguments(
                 gaussian_arguments(pts),
                 [i \in 1..Len(pts) |-> GaussianPrior(i, pts[i].name, tuples, a, r)])

\* mapper_from_gaussian_means: every empirical width is 0.
mapper_from_gaussian_means(means) ==
    mapper_from_gaussian_tuples([i \in 1..Len(means) |-> <<means[i], 0>>], None, None)

\* mapper.mapper_from_gaussian_tuples(tuples, a=a, r=r)
CallGaussianTuples(tuples, a, r) ==
    /\ ret = NoCall
    /\ ret' = [op |-> "mapper_from_gaussian_tuples", arg |-> tuples, a |-> a, r |-> r,
               out |-> mapper_from_gaussian_tuples(tuples, a, r)]
    /\ ids' = ids + ret'.out.created
    /\ UNCHANGED <<mapper_dict, object_dict, priors>>
    /\ UNCHANGED search_vars

\* mapper.mapper_from_prior_arguments(arguments), the caller having made the
\* new priors: Gaussian priors of mean 0 and sigma 1.
CallPriorArguments(arguments) ==
    /\ ret = NoCall
    /\ ret' = [op |-> "mapper_from_prior_arguments", arg |-> arguments,
               a |-> None, r |-> None,
               out |-> mapper_from_prior_arguments(arguments,
                   [i \in 1..prior_count |->
                       [id |-> ids + i - 1, mean |-> 0, sigma |-> 1,
                        lower_limit |-> NegInf, upper_limit |-> PosInf]])]
    /\ ids' = ids + prior_count
    /\ UNCHANGED <<mapper_dict, object_dict, priors>>
    /\ UNCHANGED search_vars

\* The lists of tuples a caller gives: a mean for each prior, each one more
\* than the mean before it, and one width.
GaussianTuples ==
    {[i \in 1..prior_count |-> <<m + i - 1, w>>] : m \in Means, w \in Widths}

\* The dicts a caller gives: each prior of the mapper to a new prior of its
\* own, or every prior of the mapper to the same new prior.
PriorArguments ==
    LET keys == {prior_tuples[i].prior : i \in 1..Len(prior_tuples)}
    IN  {[h \in keys |-> CHOOSE i \in 1..Len(prior_tuples) : prior_tuples[i].prior = h],
         [h \in keys |-> 1]}

-----------------------------------------------------------------------------
(* A run of fit(). *)

\* The steps of one dimension of the grid.  A point of the grid is written by
\* the number of its step in each dimension, counted from 0, and the mapper
\* takes that number for the unit value.
GridValues(step_size) == [i \in 1..(100 \div step_size) |-> i - 1]

\* optimizer.make_lists: the points of the grid, in the order grid() calls them.
RECURSIVE make_lists(_, _)
make_lists(no_dimensions, step_size) ==
    IF no_dimensions = 0 THEN << <<>> >>
    ELSE LET sub == make_lists(no_dimensions - 1, step_size)
             values == GridValues(step_size)
         IN  [k \in 1..(Len(values) * Len(sub)) |->
                 <<values[((k - 1) \div Len(sub)) + 1]>>
                     \o sub[((k - 1) % Len(sub)) + 1]]

GridPoints == make_lists(prior_count, config.step_size)

NoRun == [exists |-> FALSE, total_calls |-> 0, best_fit |-> NegInf,
          best_cube |-> NoCube, step_size |-> 0, prior_count |-> 0]

NoObservation == [calls |-> 0, evaluations |-> 0, max |-> NegInf, first |-> NoResult,
                  final_visualize |-> FALSE, final_backup |-> FALSE]

\* analysis.visualize(..., during_analysis=False) and self.backup(), the two
\* last steps of a fit() that returns.
finished(obs) == [obs EXCEPT !.final_visualize = TRUE, !.final_backup = TRUE]

NoLast == [kind |-> "none", call |-> 0, point |-> <<>>, raises |-> "none",
           evaluated |-> FALSE, returned |-> NegInf, visualized |-> FALSE,
           backed_up |-> FALSE, wrote_checkpoint |-> FALSE, added_fit |-> FALSE,
           saved_results |-> FALSE, output_results |-> FALSE,
           found |-> <<>>]

\* One more likelihood returned by the analysis: the largest so far and the
\* first evaluation that gave it.
observe(obs, instance, likelihood) ==
    [obs EXCEPT !.evaluations = @ + 1,
                !.max = IF likelihood > @ THEN likelihood ELSE @,
                !.first = IF obs.evaluations = 0 \/ likelihood > obs.max
                          THEN Result(instance, likelihood) ELSE @]

\* The backup folder: absent, present without a file, or present with files.
BackupFolders == {"absent", "empty", "files"}
Disks == [backup : BackupFolders, copy_fails : BOOLEAN]
CleanDisk == [backup |-> "absent", copy_fails |-> FALSE]

\* NonLinearOptimizer.backup: the folder is removed (a FileNotFoundError is
\* passed over) and copied anew; the shutil.Error in which copytree gathers
\* the copies that failed is logged.
backup(d) ==
    LET copytree == IF d.copy_fails THEN "shutil.Error" ELSE "none"
    IN  [raises |-> IF copytree \in {"none", "shutil.Error"} THEN "none"
                    ELSE copytree,
         disk |-> [d EXCEPT !.backup = IF d.copy_fails THEN "empty" ELSE "files"]]

\* NonLinearOptimizer.restore: with a backup folder, shutil.copy of each of
\* its files to the optimizer folder; a copy that fails raises its OSError.
restore(d) ==
    IF d.backup = "absent" THEN [raises |-> "none", copied |-> FALSE]
    ELSE IF d.backup = "files" /\ d.copy_fails
    THEN [raises |-> "PermissionError", copied |-> FALSE]
    ELSE [raises |-> "none", copied |-> d.backup = "files"]

\* The disk after an adapter call, and after the last steps of fit().
CallDisk == disk' = IF last'.backed_up THEN backup(disk).disk ELSE disk
FinishDisk ==
    disk' = IF observed'.final_backup /\ ~observed.final_backup
            THEN backup(disk).disk ELSE disk

UnchangedRun ==
    /\ UNCHANGED <<driver, config, previous, analysis, uninterrupted, threads,
                   nlo>>
    /\ UNCHANGED mapper_vars

Fail(exception) ==
    /\ pc' = "failed"
    /\ raised' = exception
    /\ result' = result

-----------------------------------------------------------------------------
(* Optimizer objects and copy_with_name_extension.  A name is the sequence *)
(* of its characters; the mapper, the constant and the functions an        *)
(* optimizer refers to are objects, told apart by a number.                *)

NoOptimizers == <<>>
OptimizerClasses == {"DownhillSimplex", "MultiNest", "GridSearch"}
\* The attributes an optimizer class adds to those of NonLinearOptimizer.
AttributesOf(cls) ==
    IF cls = "DownhillSimplex" THEN {"fmin", "xtol"}
    ELSE IF cls = "MultiNest" THEN {"run", "sigma_limit", "n_live_points"}
    ELSE {"step_size", "grid"}
Attributes == UNION {AttributesOf(cls) : cls \in OptimizerClasses}
\* The value an attribute has by default or by the config, and another one.
DefaultValue == "default"
GivenValue == "given"
Extensions == {<<"o", "n", "e">>, <<"t">>}
MaxNameLen == 8       \* characters of a phase name
MaxObjects == 8       \* objects made in one behaviour

\* cls.__init__(phase_name, phase_folders, model_mapper, **kwargs): the
\* mapper given, or a new one; a new constant; the attributes of the class
\* from the keyword arguments given, else from their defaults.  `fresh` is
\* the number of the next new object.
optimizer_init(cls, phase_name, phase_folders, model_mapper, kwargs, fresh) ==
    [class |-> cls,
     phase_name |-> phase_name,
     phase_folders |-> phase_folders,
     variable |-> IF model_mapper = None THEN fresh ELSE model_mapper[1],
     constant |-> fresh + 1,
     attributes |-> [a \in AttributesOf(cls) |->
                        IF a \in DOMAIN kwargs THEN kwargs[a] ELSE DefaultValue]]

\* "{}/{}".format(phase_name, extension)
name_with_extension(phase_name, extension) == phase_name \o <<"/">> \o extension

\* NonLinearOptimizer.copy_with_name_extension alone, without the overrides
\* of the subclasses.
copy_with_name_extension_base(self, extension, fresh) ==
    [optimizer_init(self.class, name_with_extension(self.phase_name, extension),
                    self.phase_folders, <<self.variable>>, <<>>, fresh)
        EXCEPT !.constant = self.constant]

\* The attributes the copy takes from the original: by a keyword argument of
\* the constructor or by an assignment of the override.
copied_attributes(cls) ==
    IF cls = "DownhillSimplex" THEN {"fmin"}
    ELSE IF cls = "MultiNest" THEN {"run", "sigma_limit", "n_live_points"}
    ELSE {"step_size", "grid"}

\* copy_with_name_extension of DownhillSimplex, MultiNest and GridSearch.
copy_with_name_extension(self, extension, fresh) ==
    LET kwargs == IF self.class = "GridSearch"
                  THEN [a \in {"step_size"} |-> self.attributes[a]]
                  ELSE <<>>
        new_instance == optimizer_init(self.class,
                            name_with_extension(self.phase_name, extension),
                            self.phase_folders, <<self.variable>>, kwargs, fresh)
    IN  [new_instance EXCEPT
            !.constant = self.constant,
            !.attributes = [a \in AttributesOf(self.class) |->
                               IF a \in copied_attributes(self.class)
                               THEN self.attributes[a]
                               ELSE new_instance.attributes[a]]]

\* optimizer.attribute = value
SetOptimizerAttribute(a, value) ==
    /\ nlo # NoOptimizers
    /\ nlo.copy = None
    /\ a \in AttributesOf(nlo.self.class)
    /\ nlo.self.attributes[a] # value
    /\ nlo' = [nlo EXCEPT !.self.attributes[a] = value]
    /\ UNCHANGED <<driver, config, pc, raised, fitness, checkpoint, previous,
                   observed, last, result, analysis, uninterrupted, disk, threads>>
    /\ UNCHANGED mapper_vars

\* optimizer.constant = ModelInstance()
SetOptimizerConstant ==
    /\ nlo # NoOptimizers
    /\ nlo.copy = None
    /\ nlo.self.constant < nlo.fresh
    /\ nlo.fresh < MaxObjects
    /\ nlo' = [nlo EXCEPT !.self.constant = nlo.fresh, !.fresh = @ + 1]
    /\ UNCHANGED <<driver, config, pc, raised, fitness, checkpoint, previous,
                   observed, last, result, analysis, uninterrupted, disk, threads>>
    /\ UNCHANGED mapper_vars

\* copy = optimizer.copy_with_name_extension(extension)
CallCopy(extension) ==
    /\ nlo # NoOptimizers
    /\ nlo.copy = None
    /\ Len(name_with_extension(nlo.self.phase_name, extension)) <= MaxNameLen
    /\ nlo' = [nlo EXCEPT
                   !.copy = <<copy_with_name_extension(nlo.self, extension, nlo.fresh)>>,
                   !.before = nlo.self,
                   !.extension = extension,
                   !.fresh = @ + 2]
    /\ UNCHANGED <<driver, config, pc, raised, fitness, checkpoint, previous,
                   observed, last, result, analysis, uninterrupted, disk, threads>>
    /\ UNCHANGED mapper_vars

\* The caller goes on with the copy.
UseCopy ==
    /\ nlo # NoOptimizers
    /\ nlo.copy # None
    /\ nlo' = [nlo EXCEPT !.self = nlo.copy[1], !.copy = None,
                          !.before = None, !.extension = <<>>]
    /\ UNCHANGED <<driver, config, pc, raised, fitness, checkpoint, previous,
                   observed, last, result, analysis, uninterrupted, disk, threads>>
    /\ UNCHANGED mapper_vars

-----------------------------------------------------------------------------
(* Threads inside Fitness.fit_instance.  The adapter holds no lock: every  *)
(* read and every write of a field of the adapter is a step of its own.    *)

Threads == {1, 2}
NoThreads == <<>>
IdleThread == [pc |-> "idle", instance |-> <<>>, likelihood |-> NegInf, count |-> 0]

ThreadStep(t, position) ==
    /\ driver = "DownhillSimplex"
    /\ pc = "running"
    /\ threads # NoThreads
    /\ threads[t].pc = position
    /\ UNCHANGED <<driver, config, pc, raised, checkpoint, previous, last, result,
                   analysis, uninterrupted, nlo>>
    /\ UNCHANGED mapper_vars

\* likelihood = self.analysis.fit(instance); a FitException ends the call.
ThreadFit(t, vector, outcome) ==
    /\ ThreadStep(t, "idle")
    /\ outcome.raises \in {"none", "FitException"}
    /\ LET made == instance_from_physical_vector(vector).instance
       IN  IF outcome.raises = "none"
           THEN /\ threads' = [threads EXCEPT ![t] = [@ EXCEPT
                                   !.pc = "fitted", !.instance = made,
                                   !.likelihood = outcome.likelihood]]
                /\ observed' = observe([observed EXCEPT !.calls = @ + 1], made,
                                       outcome.likelihood)
           ELSE /\ threads' = [threads EXCEPT ![t].pc = "done"]
                /\ observed' = [observed EXCEPT !.calls = @ + 1]
    /\ UNCHANGED <<fitness, disk>>

\* if likelihood > self.max_likelihood
ThreadCompare(t) ==
    /\ ThreadStep(t, "fitted")
    /\ threads' = [threads EXCEPT ![t].pc =
                       IF threads[t].likelihood > fitness.max_likelihood
                       THEN "improved" ELSE "backup"]
    /\ UNCHANGED <<fitness, observed, disk>>

\* self.max_likelihood = likelihood
ThreadStoreMax(t) ==
    /\ ThreadStep(t, "improved")
    /\ fitness' = [fitness EXCEPT !.max_likelihood = threads[t].likelihood]
    /\ threads' = [threads EXCEPT ![t].pc = "stored"]
    /\ UNCHANGED <<observed, disk>>

\* self.result = Result(instance, likelihood); should_visualise() is not
\* followed, its interval being -1.
ThreadStoreResult(t) ==
    /\ ThreadStep(t, "stored")
    /\ fitness' = [fitness EXCEPT
                       !.result = Result(threads[t].instance, threads[t].likelihood)]
    /\ threads' = [threads EXCEPT ![t].pc = "backup"]
    /\ UNCHANGED <<observed, disk>>

\* IntervalCounter.__call__ of should_backup, up to the read of self.count
ThreadReadCount(t) ==
    /\ ThreadStep(t, "backup")
    /\ threads' = [threads EXCEPT ![t] =
           IF fitness.should_backup.interval = -1 THEN [@ EXCEPT !.pc = "done"]
           ELSE [@ EXCEPT !.pc = "counting", !.count = fitness.should_backup.count]]
    /\ UNCHANGED <<fitness, observed, disk>>

\* self.count = <the count read> + 1, the test of the interval and backup()
ThreadWriteCount(t) ==
    /\ ThreadStep(t, "counting")
    /\ fitness' = [fitness EXCEPT !.should_backup.count = threads[t].count + 1]
    /\ disk' = IF (threads[t].count + 1) % fitness.should_backup.interval = 0
               THEN backup(disk).disk ELSE disk
    /\ threads' = [threads EXCEPT ![t].pc = "done"]
    /\ UNCHANGED observed

\* NonLinearOptimizer.__init__: the folders are made, then restore() is called.
Construct ==
    /\ pc = "constructing"
    /\ IF restore(disk).raises # "none"
       THEN Fail(restore(disk).raises)
       ELSE /\ pc' = "initialized"
            /\ UNCHANGED <<raised, result>>
    /\ UNCHANGED <<fitness, checkpoint, observed, last, disk>>
    /\ UnchangedRun

\* DownhillSimplex.fit and MultiNest.fit up to the call of the external optimizer.
FitStart ==
    /\ driver \in {"DownhillSimplex", "MultiNest"}
    /\ pc = "initialized"
    /\ pc' = "running"
    /\ fitness' = Fitness(0, NegInf, NoCube)
    /\ UNCHANGED <<raised, checkpoint, observed, last, result, disk>>
    /\ UnchangedRun

\* DownhillSimplex.Fitness.__call__(vector)
DownhillSimplexCall(vector, outcome) ==
    /\ driver = "DownhillSimplex"
    /\ pc = "running"
    /\ observed.calls < MaxCalls
    /\ LET made == instance_from_physical_vector(vector).instance
           thrown == outcome.raises # "none"
           caught == thrown /\ catches(outcome)
           r == fit_instance(fitness, made, outcome.likelihood)
           likelihood == IF caught THEN NegInf ELSE outcome.likelihood
           called == [observed EXCEPT !.calls = @ + 1]
       IN  /\ fitness' = IF thrown THEN fitness ELSE r.fitness
           /\ observed' = IF thrown THEN called
                          ELSE observe(called, made, outcome.likelihood)
           /\ last' = [NoLast EXCEPT
                          !.kind = "call", !.call = called.calls, !.point = vector,
                          !.raises = outcome.raises, !.evaluated = TRUE,
                          !.returned = IF thrown /\ ~caught THEN NegInf
                                       ELSE minus_two_times(likelihood),
                          !.visualized = ~thrown /\ r.visualized,
                          !.backed_up = ~thrown /\ r.backed_up]
           /\ IF thrown /\ ~caught THEN Fail(outcome.raises)
              ELSE UNCHANGED <<pc, raised, result>>
    /\ UNCHANGED checkpoint
    /\ CallDisk
    /\ UnchangedRun

\* MultiNest.Fitness.__call__(cube, ndim, nparams, lnew)
MultiNestCall(cube, outcome) ==
    /\ driver = "MultiNest"
    /\ pc = "running"
    /\ observed.calls < MaxCalls
    /\ LET made == instance_from_physical_vector(cube).instance
           thrown == outcome.raises # "none"
           caught == thrown /\ catches(outcome)
           r == fit_instance(fitness, made, outcome.likelihood)
           likelihood == IF caught THEN NegInf ELSE outcome.likelihood
           f1 == IF thrown THEN fitness ELSE r.fitness
           accepted == (~thrown \/ caught) /\ likelihood > f1.max_likelihood
           output == accepted /\ f1.accepted_samples + 1
                                    = config.number_of_accepted_samples_between_output
           called == [observed EXCEPT !.calls = @ + 1]
       IN  /\ fitness' = IF ~accepted THEN f1
                         ELSE [f1 EXCEPT !.accepted_samples =
                                             IF output THEN 0 ELSE @ + 1]
           /\ observed' = IF thrown THEN called
                          ELSE observe(called, made, outcome.likelihood)
           /\ last' = [NoLast EXCEPT
                          !.kind = "call", !.call = called.calls, !.point = cube,
                          !.raises = outcome.raises, !.evaluated = TRUE,
                          !.returned = likelihood,
                          !.visualized = ~thrown /\ r.visualized,
                          !.backed_up = ~thrown /\ r.backed_up,
                          !.output_results = output]
           /\ IF thrown /\ ~caught THEN Fail(outcome.raises)
              ELSE UNCHANGED <<pc, raised, result>>
    /\ UNCHANGED checkpoint
    /\ CallDisk
    /\ UnchangedRun

\* DownhillSimplex.fit once fmin has returned the vector `output`.
DownhillSimplexFitFinish(output) ==
    /\ driver = "DownhillSimplex"
    /\ pc = "running"
    /\ observed.calls >= 1
    /\ IF fitness.result.is_none
       THEN Fail("AttributeError")
       ELSE /\ pc' = "completed"
            /\ result' = [fitness.result EXCEPT
                              !.variable = mapper_from_gaussian_means(output)]
            /\ raised' = raised
    /\ observed' = IF fitness.result.is_none THEN observed ELSE finished(observed)
    /\ FinishDisk
    /\ UNCHANGED <<fitness, checkpoint, last>>
    /\ UnchangedRun

\* MultiNest.fit once the sampler has returned: the result is read from the
\* summary the sampler wrote.  The mapper it builds from the errors of the
\* summary is not followed.
MultiNestFitFinish(most_likely, max_likelihood) ==
    /\ driver = "MultiNest"
    /\ pc = "running"
    /\ observed.calls >= 1
    /\ pc' = "completed"
    /\ result' = Result(instance_from_physical_vector(most_likely).instance,
                        max_likelihood)
    /\ observed' = finished(observed)
    /\ FinishDisk
    /\ UNCHANGED <<raised, fitness, checkpoint, last>>
    /\ UnchangedRun

\* The test of GridSearch.Fitness.__call__ that skips a point: one call short.
in_skipped_region_exclusive(f) == f.total_calls < f.checkpoint_count

\* GridSearch.Fitness.__call__: total_calls <= checkpoint_count
in_skipped_region(f) == f.total_calls <= f.checkpoint_count

\* all_fits[cube] = fit
store_fit(all_fits, cube, fit) ==
    IF \E i \in 1..Len(all_fits) : all_fits[i][1] = cube
    THEN [i \in 1..Len(all_fits) |->
             IF all_fits[i][1] = cube THEN <<cube, fit>> ELSE all_fits[i]]
    ELSE Append(all_fits, <<cube, fit>>)

\* The two tests of GridSearch.fit on an existing checkpoint, the second left out.
checkpoint_matches_count_only ==
    checkpoint_prior_count = prior_count

\* The two tests of GridSearch.fit on an existing checkpoint.
checkpoint_matches ==
    /\ checkpoint_prior_count = prior_count
    /\ checkpoint_step_size = config.step_size

\* GridSearch.fit up to the call of grid(): the checkpoint is read and the
\* adapter built; with a best cube the adapter's constructor evaluates it,
\* and `outcome` is what the analysis does then.
GridSearchFitStart(outcome) ==
    /\ driver = "GridSearch"
    /\ pc = "initialized"
    /\ IF is_checkpoint /\ Len(checkpoint_array) < 5
       THEN /\ Fail("IndexError")
            /\ UNCHANGED <<fitness, observed, last>>
       ELSE IF is_checkpoint /\ ~checkpoint_matches
       THEN /\ Fail("CheckpointException")
            /\ UNCHANGED <<fitness, observed, last>>
       ELSE LET count == IF is_checkpoint THEN checkpoint_count ELSE 0
                best_fit == IF is_checkpoint THEN checkpoint_fit ELSE NegInf
                best_cube == IF is_checkpoint THEN checkpoint_cube ELSE NoCube
                f0 == Fitness(count, best_fit, best_cube)
                made == instance_from_unit_vector(best_cube).instance
                r == fit_instance(f0, made, outcome.likelihood)
            IN  IF best_cube = NoCube
                THEN /\ fitness' = f0
                     /\ pc' = "running"
                     /\ UNCHANGED <<raised, observed, last, result>>
                ELSE IF outcome.raises # "none"
                THEN /\ Fail(outcome.raises)
                     /\ last' = [NoLast EXCEPT !.kind = "reseed", !.point = best_cube,
                                     !.raises = outcome.raises, !.evaluated = TRUE]
                     /\ UNCHANGED <<fitness, observed>>
                ELSE /\ fitness' = r.fitness
                     /\ pc' = "running"
                     /\ observed' = observe(observed, made, outcome.likelihood)
                     /\ last' = [NoLast EXCEPT !.kind = "reseed", !.point = best_cube,
                                     !.evaluated = TRUE,
                                     !.returned = outcome.likelihood,
                                     !.visualized = r.visualized,
                                     !.backed_up = r.backed_up]
                     /\ UNCHANGED <<raised, result>>
    /\ UNCHANGED checkpoint
    /\ CallDisk
    /\ UnchangedRun

\* GridSearch.Fitness.__call__(cube), for the next point of the grid.
GridSearchCall(outcome) ==
    /\ driver = "GridSearch"
    /\ pc = "running"
    /\ fitness.total_calls < Len(GridPoints)
    /\ LET cube == GridPoints[fitness.total_calls + 1]
           f1 == [fitness EXCEPT !.total_calls = @ + 1]
           made == instance_from_unit_vector(cube).instance
           r == fit_instance(f1, made, outcome.likelihood)
           fit == outcome.likelihood
           better == fit > r.fitness.best_fit
           f2 == [r.fitness EXCEPT
                     !.all_fits = store_fit(@, cube, fit),
                     !.best_fit = IF better THEN fit ELSE @,
                     !.best_cube = IF better THEN cube ELSE @]
           save == IntervalCounter_call(f2.should_save_grid_results)
           called == [observed EXCEPT !.calls = @ + 1]
           this == [NoLast EXCEPT !.kind = "call", !.call = called.calls,
                                  !.point = cube]
       IN  IF in_skipped_region(f1)
           THEN /\ fitness' = f1
                /\ observed' = called
                /\ last' = this
                /\ UNCHANGED <<checkpoint, pc, raised, result>>
           ELSE IF outcome.raises # "none"
           THEN /\ fitness' = f1
                /\ observed' = called
                /\ last' = [this EXCEPT !.raises = outcome.raises, !.evaluated = TRUE]
                /\ UNCHANGED checkpoint
                /\ IF catches(outcome) THEN UNCHANGED <<pc, raised, result>>
                   ELSE Fail(outcome.raises)
           ELSE /\ UNCHANGED <<pc, raised, result>>
                /\ fitness' = [f2 EXCEPT !.should_save_grid_results = save.counter]
                /\ observed' = observe(called, made, fit)
                /\ checkpoint' = save_checkpoint(f2.total_calls, f2.best_fit,
                                     f2.best_cube, config.step_size, prior_count)
                /\ last' = [this EXCEPT !.evaluated = TRUE, !.returned = fit,
                                        !.visualized = r.visualized,
                                        !.backed_up = r.backed_up,
                                        !.wrote_checkpoint = TRUE,
                                        !.found = checkpoint,
                                        !.added_fit = TRUE,
                                        !.saved_results = save.fired]
    /\ CallDisk
    /\ UnchangedRun

\* The instances of GridSearch.Result: one (instance, fit) for each item of
\* all_fits.
instances_of(all_fits) ==
    [i \in 1..Len(all_fits) |->
        <<instance_from_unit_vector(all_fits[i][1]).instance, all_fits[i][2]>>]

\* GridSearch.fit once grid() has returned.
GridSearchFitFinish ==
    /\ driver = "GridSearch"
    /\ pc = "running"
    /\ fitness.total_calls = Len(GridPoints)
    /\ IF fitness.best_cube = NoCube THEN Fail("TypeError")
       ELSE IF fitness.result.is_none THEN Fail("AttributeError")
       ELSE /\ pc' = "completed"
            /\ result' = [fitness.result EXCEPT
                              !.variable = mapper_from_gaussian_means(fitness.best_cube),
                              !.instances = instances_of(fitness.all_fits)]
            /\ raised' = raised
    /\ observed' = IF fitness.best_cube = NoCube \/ fitness.result.is_none
                   THEN observed ELSE finished(observed)
    /\ FinishDisk
    /\ UNCHANGED <<fitness, checkpoint, last>>
    /\ UnchangedRun

-----------------------------------------------------------------------------
(* The search over a grid of priors (autofit/optimize/grid_search.py).       *)

\* set(grid_priors): the distinct priors of the sequence, iterated in an order
\* the hashes of the objects settle, which is any order.
SetOrders(grid_priors) ==
    LET distinct == {grid_priors[i] : i \in 1..Len(grid_priors)}
        n == Cardinality(distinct)
    IN  {o \in [1..n -> distinct] : \A i, j \in 1..n : o[i] = o[j] => i = j}

\* [UniformPrior(lower_limit=value, upper_limit=value + self.step_size)
\*  for value in values], the first of them taking the id first_id.  A value
\* is the number of its step, and the limits are in hundredths.
UniformPriors(values, step_size, first_id) ==
    [j \in 1..Len(values) |->
        [id |-> first_id + j - 1,
         lower_limit |-> values[j] * step_size,
         upper_limit |-> values[j] * step_size + step_size]]

\* mapper_from_partial_prior_arguments: arguments[h] is the place, in
\* new_priors, of the prior that replaces the prior h; a prior without a
\* replacement is mapped to itself.
mapper_from_partial_prior_arguments(arguments, new_priors) ==
    LET original_prior_dict ==
            [h \in {prior_tuples[i].prior : i \in 1..Len(prior_tuples)} |-> h]
        merged == [h \in DOMAIN original_prior_dict \cup DOMAIN arguments |->
                      IF h \in DOMAIN arguments THEN Len(priors) + arguments[h]
                      ELSE original_prior_dict[h]]
    IN  mapper_from_prior_arguments(merged, priors \o new_priors)

\* GridSearch.models_mappers, `order` being the iteration order of
\* set(grid_priors): one mapper for each point of the grid over the distinct
\* priors.
models_mappers(order, step_size) ==
    LET lists == make_lists(Len(order), step_size)
    IN  [k \in 1..Len(lists) |->
            mapper_from_partial_prior_arguments(
                [h \in {order[j] : j \in 1..Len(order)} |->
                    CHOOSE j \in 1..Len(order) : order[j] = h],
                UniformPriors(lists[k], step_size, ids + (k - 1) * Len(order)))]

\* GridSearch.fit: zip(lists, models_mappers) stops at the shorter of the
\* two; each pair makes one optimizer, recorded by the mapper and the values
\* of the name it is constructed with.
prior_grid_fit(grid_priors, order, step_size) ==
    LET lists == make_lists(Len(grid_priors), step_size)
        mappers == models_mappers(order, step_size)
    IN  [k \in 1..Min(Len(lists), Len(mappers)) |->
            [values |-> lists[k], model_mapper |-> mappers[k]]]

\* GridSearch(step_size=step_size, model_mapper=mapper).fit(analysis, grid_priors)
CallPriorGridFit(grid_priors, order, step_size) ==
    /\ ret = NoCall
    /\ \A i \in 1..Len(grid_priors) :
           \E j \in 1..Len(prior_tuples) : prior_tuples[j].prior = grid_priors[i]
    /\ order \in SetOrders(grid_priors)
    /\ ret' = [op |-> "GridSearch.fit", arg |-> grid_priors, order |-> order,
               step_size |-> step_size,
               out |-> prior_grid_fit(grid_priors, order, step_size)]
    /\ ids' = ids + Len(ret'.out) * Len(order)
    /\ UNCHANGED <<mapper_dict, object_dict, priors>>
    /\ UNCHANGED search_vars

-----------------------------------------------------------------------------
(* Initial states and specifications. *)

\* The mapper of a run: one prior model with a prior on each of its fields.
SearchMapper ==
    /\ mapper_dict = <<[name |-> "one",
                        prior_model |-> [f \in Fields |->
                            IF f = FieldSeq[1] THEN <<"prior", 1>>
                            ELSE <<"prior", 2>>]]>>
    /\ object_dict = <<>>
    /\ priors = <<[id |-> 1, lower_limit |-> 0, upper_limit |-> 1],
                  [id |-> 2, lower_limit |-> 1, upper_limit |-> 3]>>
    /\ ids = 3
    /\ ret = NoCall

\* No analysis fixed in advance and no run to compare with.
NoAnalysis == <<>>
NoOutcome == [interrupted |-> FALSE, finished |-> FALSE, calls |-> 0,
              file |-> <<>>, left |-> NoRun, pc |-> "initialized",
              raised |-> "none", result |-> NoResult, best_fit |-> NegInf,
              best_cube |-> NoCube]

NotStarted ==
    /\ disk = CleanDisk
    /\ threads = NoThreads
    /\ nlo = NoOptimizers
    /\ analysis = NoAnalysis
    /\ uninterrupted = NoOutcome
    /\ pc = "initialized"
    /\ raised = "none"
    /\ fitness = Fitness(0, NegInf, NoCube)
    /\ observed = NoObservation
    /\ last = NoLast
    /\ result = NoResult

\* No run: the state of the search variables while only a mapper is used.
SearchIdle ==
    /\ driver = "none"
    /\ config = [visualise_interval |-> -1, backup_interval |-> -1,
                 grid_results_interval |-> -1,
                 number_of_accepted_samples_between_output |-> 1,
                 step_size |-> 100]
    /\ checkpoint = <<>>
    /\ previous = NoRun
    /\ NotStarted

FitnessInit ==
    /\ SearchMapper
    /\ driver \in {"DownhillSimplex", "MultiNest"}
    /\ config \in [visualise_interval : Intervals, backup_interval : Intervals,
                   grid_results_interval : {-1},
                   number_of_accepted_samples_between_output : {1},
                   step_size : {100}]
    /\ checkpoint = <<>>
    /\ previous = NoRun
    /\ NotStarted

FitnessNext ==
    \/ FitStart
    \/ \E vector \in VectorsOf(prior_count), outcome \in Outcomes :
           DownhillSimplexCall(vector, outcome)
    \/ \E cube \in VectorsOf(prior_count), outcome \in Outcomes :
           MultiNestCall(cube, outcome)
    \/ \E output \in VectorsOf(prior_count) : DownhillSimplexFitFinish(output)
    \/ \E most_likely \in VectorsOf(prior_count), max_likelihood \in 1..MaxLikelihood :
           MultiNestFitFinish(most_likely, max_likelihood)

SpecFitness == FitnessInit /\ [][FitnessNext]_vars

\* The best fit an earlier run can have recorded after k calls.
Bests(points, k) ==
    {[fit |-> NegInf, cube |-> NoCube]}
        \cup {[fit |-> l, cube |-> points[i]] : l \in 1..MaxLikelihood, i \in 1..k}

PriorCounts == {1, 2}

\* What an earlier run of a grid search can have left in its checkpoint.
PreviousRuns ==
    UNION {UNION {
        {[exists |-> TRUE, total_calls |-> k, best_fit |-> b.fit,
          best_cube |-> b.cube, step_size |-> s, prior_count |-> n] :
            b \in Bests(make_lists(n, s), k)} :
        k \in 1..Len(make_lists(n, s))} : <<n, s>> \in PriorCounts \X StepSizes}

GridSearchInit ==
    /\ SearchMapper
    /\ driver = "GridSearch"
    /\ config \in {[visualise_interval |-> i, backup_interval |-> i,
                    grid_results_interval |-> i,
                    number_of_accepted_samples_between_output |-> 1,
                    step_size |-> s] : i \in Intervals, s \in StepSizes}
    /\ previous \in {NoRun} \cup PreviousRuns
    /\ checkpoint = IF previous.exists
                    THEN save_checkpoint(previous.total_calls, previous.best_fit,
                             previous.best_cube, previous.step_size,
                             previous.prior_count)
                    ELSE <<>>
    /\ NotStarted

GridSearchNext ==
    \/ \E outcome \in Outcomes : GridSearchFitStart(outcome)
    \/ \E outcome \in Outcomes : GridSearchCall(outcome)
    \/ GridSearchFitFinish

SpecGridSearch == GridSearchInit /\ [][GridSearchNext]_vars

\* A run of any of the three drivers.
DriversInit ==
    \/ FitnessInit /\ config.visualise_interval = config.backup_interval
    \/ GridSearchInit

DriversNext == FitnessNext \/ GridSearchNext

SpecDrivers == DriversInit /\ [][DriversNext]_vars

\* An optimizer is built on a disk in any state, then run.
ConstructInit ==
    /\ SearchMapper
    /\ driver \in {"DownhillSimplex", "GridSearch"}
    /\ config \in {[visualise_interval |-> -1, backup_interval |-> i,
                    grid_results_interval |-> -1,
                    number_of_accepted_samples_between_output |-> 1,
                    step_size |-> 100] : i \in Intervals}
    /\ checkpoint = <<>>
    /\ previous = NoRun
    /\ disk \in Disks
    /\ threads = NoThreads
    /\ nlo = NoOptimizers
    /\ analysis = NoAnalysis
    /\ uninterrupted = NoOutcome
    /\ pc = "constructing"
    /\ raised = "none"
    /\ fitness = Fitness(0, NegInf, NoCube)
    /\ observed = NoObservation
    /\ last = NoLast
    /\ result = NoResult

ConstructNext ==
    \/ Construct
    \/ FitStart
    \/ \E vector \in VectorsOf(prior_count), outcome \in Outcomes :
           DownhillSimplexCall(vector, outcome)
    \/ \E output \in VectorsOf(prior_count) : DownhillSimplexFitFinish(output)
    \/ GridSearchNext

SpecConstruct == ConstructInit /\ [][ConstructNext]_vars

\* One adapter called once by each of the threads.
ThreadsInit ==
    /\ SearchMapper
    /\ driver = "DownhillSimplex"
    /\ config \in {[visualise_interval |-> -1, backup_interval |-> i,
                    grid_results_interval |-> -1,
                    number_of_accepted_samples_between_output |-> 1,
                    step_size |-> 100] : i \in Intervals}
    /\ checkpoint = <<>>
    /\ previous = NoRun
    /\ disk = CleanDisk
    /\ threads = [t \in Threads |-> IdleThread]
    /\ nlo = NoOptimizers
    /\ analysis = NoAnalysis
    /\ uninterrupted = NoOutcome
    /\ pc = "running"
    /\ raised = "none"
    /\ fitness = Fitness(0, NegInf, NoCube)
    /\ observed = NoObservation
    /\ last = NoLast
    /\ result = NoResult

ThreadsNext ==
    \E t \in Threads :
        \/ \E vector \in VectorsOf(prior_count), outcome \in Outcomes :
               ThreadFit(t, vector, outcome)
        \/ ThreadCompare(t)
        \/ ThreadStoreMax(t)
        \/ ThreadStoreResult(t)
        \/ ThreadReadCount(t)
        \/ ThreadWriteCount(t)

SpecThreads == ThreadsInit /\ [][ThreadsNext]_vars

\* An optimizer of any class, built with or without a mapper.
CopyInit ==
    /\ SearchMapper
    /\ driver = "none"
    /\ config = [visualise_interval |-> -1, backup_interval |-> -1,
                 grid_results_interval |-> -1,
                 number_of_accepted_samples_between_output |-> 1,
                 step_size |-> 100]
    /\ checkpoint = <<>>
    /\ previous = NoRun
    /\ disk = CleanDisk
    /\ threads = NoThreads
    /\ analysis = NoAnalysis
    /\ uninterrupted = NoOutcome
    /\ pc = "initialized"
    /\ raised = "none"
    /\ fitness = Fitness(0, NegInf, NoCube)
    /\ observed = NoObservation
    /\ last = NoLast
    /\ result = NoResult
    /\ \E cls \in OptimizerClasses, model_mapper \in {None, <<1>>} :
           nlo = [self |-> optimizer_init(cls, <<"p">>, None, model_mapper, <<>>, 2),
                  copy |-> None, before |-> None, extension |-> <<>>, fresh |-> 4]

CopyNext ==
    \/ \E a \in Attributes, value \in {DefaultValue, GivenValue} :
           SetOptimizerAttribute(a, value)
    \/ SetOptimizerConstant
    \/ \E extension \in Extensions : CallCopy(extension)
    \/ UseCopy

SpecCopy == CopyInit /\ [][CopyNext]_vars

\* What the analysis does at a cube.
OutcomeAt(cube) ==
    IF cube \in DOMAIN analysis THEN analysis[cube]
    ELSE [raises |-> "none", likelihood |-> NegInf]

\* The process of a grid search is killed between two adapter calls: what it
\* leaves is the checkpoint file.  The run is also followed to its end.
Interrupt ==
    /\ driver = "GridSearch"
    /\ pc = "running"
    /\ ~uninterrupted.interrupted
    /\ uninterrupted' = [uninterrupted EXCEPT
           !.interrupted = TRUE,
           !.calls = fitness.total_calls,
           !.file = checkpoint,
           !.left = IF is_checkpoint
                    THEN [exists |-> TRUE, total_calls |-> checkpoint_count,
                          best_fit |-> checkpoint_fit, best_cube |-> checkpoint_cube,
                          step_size |-> checkpoint_step_size,
                          prior_count |-> checkpoint_prior_count]
                    ELSE NoRun]
    /\ UNCHANGED <<driver, config, pc, raised, fitness, checkpoint, previous,
                   observed, last, result, analysis, disk, threads, nlo>>
    /\ UNCHANGED mapper_vars

\* The process of a grid search is killed inside the save_checkpoint of the
\* call it has just made, after k lines of the record.
CrashInSave(k) ==
    /\ driver = "GridSearch"
    /\ pc = "running"
    /\ ~uninterrupted.interrupted
    /\ last.kind = "call"
    /\ last.wrote_checkpoint
    /\ uninterrupted' = [uninterrupted EXCEPT
           !.interrupted = TRUE,
           !.calls = fitness.total_calls,
           !.file = truncated(checkpoint, k),
           !.left = NoRun]
    /\ UNCHANGED <<driver, config, pc, raised, fitness, checkpoint, previous,
                   observed, last, result, analysis, disk, threads, nlo>>
    /\ UNCHANGED mapper_vars

\* A new GridSearch of the same name and step size is built on the file the
\* killed process left.
Resume ==
    /\ driver = "GridSearch"
    /\ pc \in {"completed", "failed"}
    /\ uninterrupted.interrupted
    /\ ~uninterrupted.finished
    /\ uninterrupted' = [uninterrupted EXCEPT
           !.finished = TRUE, !.pc = pc, !.raised = raised, !.result = result,
           !.best_fit = fitness.best_fit, !.best_cube = fitness.best_cube]
    /\ checkpoint' = uninterrupted.file
    /\ previous' = uninterrupted.left
    /\ pc' = "initialized"
    /\ raised' = "none"
    /\ fitness' = Fitness(0, NegInf, NoCube)
    /\ observed' = NoObservation
    /\ last' = NoLast
    /\ result' = NoResult
    /\ UNCHANGED <<driver, config, analysis, disk, threads, nlo>>
    /\ UNCHANGED mapper_vars

ResumeInit ==
    /\ SearchMapper
    /\ driver = "GridSearch"
    /\ config \in {[visualise_interval |-> -1, backup_interval |-> -1,
                    grid_results_interval |-> -1,
                    number_of_accepted_samples_between_output |-> 1,
                    step_size |-> s] : s \in StepSizes}
    /\ checkpoint = <<>>
    /\ previous = NoRun
    /\ analysis \in [{GridPoints[i] : i \in 1..Len(GridPoints)} -> Outcomes]
    /\ uninterrupted = NoOutcome
    /\ disk = CleanDisk
    /\ threads = NoThreads
    /\ nlo = NoOptimizers
    /\ pc = "initialized"
    /\ raised = "none"
    /\ fitness = Fitness(0, NegInf, NoCube)
    /\ observed = NoObservation
    /\ last = NoLast
    /\ result = NoResult

ResumeNext ==
    \/ GridSearchFitStart(OutcomeAt(IF is_checkpoint THEN checkpoint_cube ELSE NoCube))
    \/ GridSearchCall(OutcomeAt(IF fitness.total_calls < Len(GridPoints)
                                THEN GridPoints[fitness.total_calls + 1]
                                ELSE NoCube))
    \/ GridSearchFitFinish
    \/ Interrupt
    \/ Resume

SpecResume == ResumeInit /\ [][ResumeNext]_vars

CrashNext == ResumeNext \/ \E k \in 0..4 : CrashInSave(k)

SpecCrash == ResumeInit /\ [][CrashNext]_vars

MapperInit ==
    /\ mapper_dict = <<>>
    /\ object_dict = <<>>
    /\ priors = <<>>
    /\ ids = 0
    /\ ret = NoCall
    /\ SearchIdle

MapperNext ==
    \/ \E name \in PriorModelNames : SetAttrClass(name)
    \/ \E name \in PriorModelNames, f \in Fields, limits \in Limits :
           SetPrior(name, f, limits)
    \/ \E name \in PriorModelNames, f \in Fields,
          other \in PriorModelNames, g \in Fields : SharePrior(name, f, other, g)
    \/ \E v \in CallVectors : CallPhysicalVector(v)
    \/ \E v \in CallVectors : CallInstanceFromUnit(v)
    \/ \E v \in CallVectors : CallInstanceFromPhysical(v)
    \/ \E v \in VectorsOf(prior_count) : CallBothRoutes(v)
    \/ Discard

Spec == MapperInit /\ [][MapperNext]_vars

EqNext ==
    \/ \E name \in PriorModelNames : SetAttrClass(name)
    \/ \E name \in PriorModelNames, f \in Fields, limits \in Limits :
           SetPrior(name, f, limits)
    \/ \E name \in PriorModelNames, f \in Fields,
          other \in PriorModelNames, g \in Fields : SharePrior(name, f, other, g)
    \/ \E other \in OtherMappers : CallEq(other)

SpecEq == MapperInit /\ [][EqNext]_vars

PassThroughNext ==
    \/ \E name \in PriorModelNames : SetAttrClass(name)
    \/ \E name \in PriorModelNames, f \in Fields, limits \in Limits :
           SetPrior(name, f, limits)
    \/ \E name \in InstanceNames, obj \in Objects : SetAttrObject(name, obj)
    \/ \E v \in CallVectors : CallInstanceFromUnit(v)
    \/ \E v \in CallVectors : CallInstanceFromPhysical(v)
    \/ Discard

SpecPassThrough == MapperInit /\ [][PassThroughNext]_vars

RefineNext ==
    \/ \E name \in PriorModelNames : SetAttrClass(name)
    \/ \E name \in PriorModelNames, f \in Fields, limits \in Limits :
           SetPrior(name, f, limits)
    \/ \E name \in PriorModelNames, f \in Fields,
          other \in PriorModelNames, g \in Fields : SharePrior(name, f, other, g)
    \/ \E tuples \in GaussianTuples, a \in AbsoluteWidths, r \in RelativeWidths :
           CallGaussianTuples(tuples, a, r)
    \/ \E arguments \in PriorArguments : CallPriorArguments(arguments)

SpecRefine == MapperInit /\ [][RefineNext]_vars

\* The sequences of priors a caller gives the grid search.
GridPriorSequences == UNION {[1..n -> 1..MaxPriors] : n \in 1..2}

PriorGridNext ==
    \/ \E name \in PriorModelNames : SetAttrClass(name)
    \/ \E name \in PriorModelNames, f \in Fields, limits \in Limits :
           SetPrior(name, f, limits)
    \/ \E name \in PriorModelNames, f \in Fields,
          other \in PriorModelNames, g \in Fields : SharePrior(name, f, other, g)
    \/ \E grid_priors \in GridPriorSequences, step_size \in StepSizes :
           \E order \in SetOrders(grid_priors) :
               CallPriorGridFit(grid_priors, order, step_size)

SpecPriorGrid == MapperInit /\ [][PriorGridNext]_vars

-----------------------------------------------------------------------------
(* Claims about the mapper, checked under Spec. *)

\* The fields of the mapper, as <<index in mapper_dict, field name>>.
Slots == (1..Len(mapper_dict)) \X Fields
SlotValue(s) == mapper_dict[s[1]].prior_model[s[2]]
ReachablePriors == {SlotValue(s)[2] : s \in {t \in Slots : IsPrior(SlotValue(t))}}
IdOf(h) == priors[h].id

\* C1: prior_tuples_ordered_by_id holds every prior reachable from the
\* top-level prior models exactly once, in strictly increasing id, and its
\* length is prior_count, the number of distinct reachable priors; being the
\* increasing enumeration of that set, it is the same on every call on an
\* unmutated mapper.
C1_OrderedDistinctPriors ==
    LET pts == prior_tuples_ordered_by_id
    IN  /\ {pts[i].prior : i \in 1..Len(pts)} = ReachablePriors
        /\ \A i, j \in 1..Len(pts) : i < j => IdOf(pts[i].prior) < IdOf(pts[j].prior)
        /\ Len(pts) = Cardinality(ReachablePriors)
        /\ prior_count = Cardinality(ReachablePriors)

\* A mapper with a prior shared by two fields, whose dict order is not id order.
C1_Witness ==
    /\ Len(prior_tuples_as_list) > prior_count
    /\ prior_count >= 2
    /\ prior_tuples # prior_tuples_ordered_by_id

VectorOps == {"physical_vector_from_hypercube_vector",
              "instance_from_unit_vector", "instance_from_physical_vector"}

\* C2: the three vector operations fail with a dimension error whenever the
\* vector's length differs from prior_count.
C2_DimensionError ==
    (ret.op \in VectorOps /\ Len(ret.arg) # prior_count)
        => ret.out.status = "DimensionError"

SharesPrior(s) ==
    /\ IsPrior(SlotValue(s))
    /\ \E t \in Slots : t # s /\ SlotValue(t) = SlotValue(s)

\* C3: two fields bound to the same prior get equal values in the instance of
\* every vector of length prior_count, and binding one of the two to a newly
\* created prior raises prior_count by exactly 1.
C3_SharedFieldsEqual ==
    (ret.op \in {"instance_from_unit_vector", "instance_from_physical_vector"}
        /\ Len(ret.arg) = prior_count)
    => /\ ret.out.status = "ok"
       /\ \A s, t \in Slots :
              (IsPrior(SlotValue(s)) /\ SlotValue(s) = SlotValue(t))
              => ret.out.instance[s[1]].object[s[2]]
                     = ret.out.instance[t[1]].object[t[2]]

C3_RebindAddsOne ==
    \A name \in PriorModelNames, f \in Fields, limits \in Limits :
        (SetPrior(name, f, limits) /\ SharesPrior(<<IndexOf(name), f>>))
            => prior_count' = prior_count + 1

C3_Sharing == []C3_SharedFieldsEqual /\ [][C3_RebindAddsOne]_vars

\* An instance made from a vector of two different values for a mapper with a
\* shared prior, one field of which was bound to a new prior before.
C3_Witness ==
    /\ ret.op = "instance_from_unit_vector"
    /\ Len(ret.arg) = prior_count
    /\ \E i, j \in 1..Len(ret.arg) : ret.arg[i] # ret.arg[j]
    /\ \E s \in Slots : SharesPrior(s)
    /\ \E s \in Slots : IsPrior(SlotValue(s)) /\ priors[SlotValue(s)[2]].lower_limit = 1

\* C4: for a unit vector of length prior_count, the instance made from its
\* physical vector and the instance made from the unit vector agree on every
\* field.
C4_RoutesAgree ==
    ret.op = "both_routes"
        => /\ ret.out.status = "ok"
           /\ ret.via_physical.status = "ok"
           /\ \A s \in Slots : ret.out.instance[s[1]].object[s[2]]
                                = ret.via_physical.instance[s[1]].object[s[2]]

\* Both routes taken on a mapper whose dict order is not its id order, with a
\* vector of two different values.
C4_Witness ==
    /\ ret.op = "both_routes"
    /\ prior_tuples # prior_tuples_ordered_by_id
    /\ \E i, j \in 1..Len(ret.arg) : ret.arg[i] # ret.arg[j]

-----------------------------------------------------------------------------
(* Claims about the search drivers. *)

\* C5: after any sequence of adapter evaluations that returned a likelihood,
\* Fitness.max_likelihood is the largest likelihood returned so far (negative
\* infinity if none) and Fitness.result holds the instance and likelihood of
\* the earliest evaluation that attained it.
C5_MaxAndEarliestResult ==
    /\ fitness.max_likelihood = observed.max
    /\ observed.evaluations > 0 => fitness.result = observed.first

\* C6: a FitException raised by the analysis in any evaluation a driver makes,
\* the one that re-seeds the best result from a checkpointed best cube
\* included, is caught: FitException never leaves fit().
C6_FitExceptionNeverEscapes == raised # "FitException"

\* C7: with a visualise interval N >= 1 the visualize side effect runs on
\* exactly the adapter calls numbered N, 2N, 3N, ..., whatever the likelihoods
\* (stated here for the calls in which the analysis returned, once a finite
\* likelihood has been seen).
C7_VisualiseEveryNthCall ==
    (/\ last.kind = "call"
     /\ last.raises = "none"
     /\ observed.max > NegInf
     /\ config.visualise_interval >= 1)
        => (last.visualized <=> last.call % config.visualise_interval = 0)

\* The checkpoint file as the run found it.
StartCheckpoint ==
    IF previous.exists
    THEN save_checkpoint(previous.total_calls, previous.best_fit, previous.best_cube,
                         previous.step_size, previous.prior_count)
    ELSE <<>>

\* The earlier run had the step size and the prior count of this one.
Resumed ==
    /\ previous.exists
    /\ previous.step_size = config.step_size
    /\ previous.prior_count = prior_count

\* The evaluations made before the first call of the adapter.
Reseeds == IF previous.best_cube = NoCube THEN 0 ELSE 1

\* C8: a grid search started on a matching checkpoint of k completed calls
\* returns from its first k adapter calls without evaluating the point (no
\* likelihood call, no checkpoint write, no entry in all_fits), evaluates the
\* point of call k + 1 as the first of the grid, and starts from the best
\* score and best cube of the record.
C8_ResumeSkipsCompletedCalls ==
    (Resumed /\ pc = "running") =>
        /\ fitness.checkpoint_count = previous.total_calls
        /\ fitness.total_calls <= previous.total_calls =>
               /\ fitness.best_fit = previous.best_fit
               /\ fitness.best_cube = previous.best_cube
               /\ fitness.all_fits = <<>>
               /\ observed.evaluations = Reseeds
               /\ checkpoint = StartCheckpoint
        /\ (last.kind = "call" /\ last.call <= previous.total_calls) =>
               /\ ~last.evaluated
               /\ ~last.wrote_checkpoint
               /\ ~last.added_fit
               /\ last.returned = NegInf
        /\ (last.kind = "call" /\ last.call = previous.total_calls + 1) =>
               /\ last.evaluated
               /\ last.point = GridPoints[previous.total_calls + 1]
               /\ observed.evaluations <= Reseeds + 1

C8_Witness ==
    /\ Resumed
    /\ pc = "running"
    /\ previous.total_calls >= 2
    /\ previous.best_fit # NegInf
    /\ last.kind = "call"
    /\ last.call = previous.total_calls + 1
    /\ last.evaluated
    /\ fitness.best_fit = previous.best_fit

\* The earlier run differs from this one in its prior count or its step size.
Mismatch ==
    /\ previous.exists
    /\ \/ previous.prior_count # prior_count
       \/ previous.step_size # config.step_size

\* C9: on a checkpoint whose prior count or step size differs from the run's,
\* GridSearch.fit raises CheckpointException before the grid is called: no
\* point is evaluated, no best score is taken from the record and the
\* checkpoint file is left as it was.
C9_MismatchRaisesBeforeGrid ==
    (Mismatch /\ pc # "initialized") =>
        /\ pc = "failed"
        /\ raised = "CheckpointException"
        /\ observed = NoObservation
        /\ last = NoLast
        /\ fitness.best_fit = NegInf
        /\ fitness.best_cube = NoCube
        /\ fitness.total_calls = 0
        /\ checkpoint = StartCheckpoint

C9_Witness ==
    /\ Mismatch
    /\ previous.prior_count = prior_count
    /\ previous.best_cube # NoCube
    /\ raised = "CheckpointException"

\* C10: after every call of the grid adapter past the skipped region, one
\* that ended in a FitException included, the checkpoint file holds the
\* number of adapter calls made so far, the current best score and best cube,
\* the step size and the prior count.
C10_CheckpointAfterEveryCall ==
    (last.kind = "call" /\ last.evaluated
        /\ last.raises \in {"none", "FitException"}) =>
        /\ is_checkpoint
        /\ checkpoint_count = observed.calls
        /\ checkpoint_fit = fitness.best_fit
        /\ checkpoint_cube = fitness.best_cube
        /\ checkpoint_step_size = config.step_size
        /\ checkpoint_prior_count = prior_count

\* C11: with a deterministic analysis, a grid search killed after any number
\* of adapter calls and resumed from the checkpoint it left ends as the run
\* that was not killed: the same outcome of fit(), the same best fit and best
\* cube, and the same best instance and figure of merit in the result.
C11_ResumedRunEndsAsUninterrupted ==
    (uninterrupted.finished /\ pc \in {"completed", "failed"}) =>
        /\ pc = uninterrupted.pc
        /\ raised = uninterrupted.raised
        /\ fitness.best_fit = uninterrupted.best_fit
        /\ fitness.best_cube = uninterrupted.best_cube
        /\ result.is_none = uninterrupted.result.is_none
        /\ result.constant = uninterrupted.result.constant
        /\ result.figure_of_merit = uninterrupted.result.figure_of_merit
        /\ result.variable = uninterrupted.result.variable

C11_Witness ==
    /\ uninterrupted.finished
    /\ pc = "completed"
    /\ uninterrupted.calls >= 2
    /\ uninterrupted.calls < Len(GridPoints)
    /\ previous.exists
    /\ previous.best_cube # NoCube
    /\ previous.total_calls < uninterrupted.calls
    /\ fitness.best_cube # previous.best_cube

-----------------------------------------------------------------------------
(* Claims about refinement, checked under SpecRefine. *)

RefineOps == {"mapper_from_gaussian_tuples", "mapper_from_prior_arguments"}

\* What the field of a slot holds in the mapper a refinement returned.
NewSlotValue(s) == ret.out.mapper_dict[s[1]].prior_model[s[2]]
NewPriorOf(s) == ret.out.priors[NewSlotValue(s)[2]]

\* The policy width as the specification words it.
StatedWidth(a, r, mean, name) ==
    IF a # None THEN a[1]
    ELSE IF r # None THEN r[1] * mean
    ELSE IF prior_width_config(name)[1] = "a" THEN prior_width_config(name)[2]
    ELSE prior_width_config(name)[2] * mean

\* C12: for the prior at each position i of prior_tuples_ordered_by_id,
\* mapper_from_gaussian_tuples puts in every field that held it a Gaussian
\* prior of mean tuples[i][0] and sigma max(tuples[i][1], w), w being a, or
\* r * mean, or the configured width of the field (times the mean when it is
\* relative); with only a = 2 and empirical widths 0 every sigma is 2.
C12_GaussianFromTuples ==
    (/\ ret.op = "mapper_from_gaussian_tuples"
     /\ ~(ret.a # None /\ ret.r # None))
    => LET pts == prior_tuples_ordered_by_id
       IN  /\ ret.out.status = "ok"
           /\ \A i \in 1..Len(pts) : \A s \in Slots :
                  SlotValue(s) = <<"prior", pts[i].prior>> =>
                      /\ IsPrior(NewSlotValue(s))
                      /\ NewPriorOf(s).mean = ret.arg[i][1]
                      /\ NewPriorOf(s).sigma =
                             Max(ret.arg[i][2],
                                 StatedWidth(ret.a, ret.r, ret.arg[i][1], pts[i].name))
                      /\ (ret.a = <<2>> /\ ret.arg[i][2] = 0)
                             => NewPriorOf(s).sigma = 2

\* A mapper whose dict order is not its id order, refined with a relative
\* width that exceeds the empirical one.
C12_Witness ==
    /\ ret.op = "mapper_from_gaussian_tuples"
    /\ ret.a = None
    /\ ret.r # None
    /\ ret.out.status = "ok"
    /\ prior_count >= 2
    /\ prior_tuples # prior_tuples_ordered_by_id
    /\ \E g \in 1..Len(ret.out.priors) :
           ret.out.priors[g].mean >= 2 /\ ret.out.priors[g].sigma = ret.out.priors[g].mean

\* C13: mapper_from_gaussian_tuples called with both a and r raises
\* PriorException and returns no mapper, whatever the mapper and the tuples.
C13_BothWidthsRaise ==
    (/\ ret.op = "mapper_from_gaussian_tuples"
     /\ ret.a # None
     /\ ret.r # None)
    => ret.out.status = "PriorException"

\* The priors the fields of the returned mapper hold.
NewReachablePriors ==
    {NewSlotValue(s)[2] : s \in {t \in Slots : IsPrior(NewSlotValue(t))}}

\* The arguments of the last call give different priors different new priors.
OneToOne(arguments) ==
    \A h, k \in DOMAIN arguments : arguments[h] = arguments[k] => h = k

\* C14 as stated: in the mapper either operation returns, two fields hold the
\* same prior exactly if they held the same prior in the original, and the
\* number of priors is the original's.
C14_SharingIffShared ==
    (ret.op \in RefineOps /\ ret.out.status = "ok")
    => /\ \A s, t \in Slots :
              (IsPrior(SlotValue(s)) /\ SlotValue(s) = SlotValue(t))
                  <=> (IsPrior(NewSlotValue(s)) /\ NewSlotValue(s) = NewSlotValue(t))
       /\ Cardinality(NewReachablePriors) = prior_count

\* C14, amended: fields that held the same prior hold the same prior in the
\* returned mapper, and a field holds a prior there exactly if it held one;
\* the converse and the equal number of priors hold for
\* mapper_from_gaussian_tuples, and for mapper_from_prior_arguments when the
\* arguments give different priors different new priors.
C14_SharedStaysShared ==
    (ret.op \in RefineOps /\ ret.out.status = "ok")
    => /\ \A s \in Slots : IsPrior(SlotValue(s)) <=> IsPrior(NewSlotValue(s))
       /\ \A s \in Slots : ~IsPrior(SlotValue(s)) => NewSlotValue(s) = SlotValue(s)
       /\ \A s, t \in Slots :
              (IsPrior(SlotValue(s)) /\ SlotValue(s) = SlotValue(t))
                  => NewSlotValue(s) = NewSlotValue(t)
       /\ (ret.op = "mapper_from_gaussian_tuples" \/ OneToOne(ret.arg))
              => /\ \A s, t \in Slots :
                        (IsPrior(NewSlotValue(s)) /\ NewSlotValue(s) = NewSlotValue(t))
                            => SlotValue(s) = SlotValue(t)
                 /\ Cardinality(NewReachablePriors) = prior_count

\* The original mapper and its priors are as they were after either operation.
C14_OriginalUnchanged ==
    (ret'.op \in RefineOps /\ ret.op \notin RefineOps)
        => UNCHANGED <<mapper_dict, priors>>

C14_SharingPreserved == []C14_SharedStaysShared /\ [][C14_OriginalUnchanged]_vars

\* A mapper of two priors, one of them shared by two fields, refined.
C14_Witness ==
    /\ ret.op = "mapper_from_gaussian_tuples"
    /\ ret.out.status = "ok"
    /\ prior_count >= 2
    /\ \E s \in Slots : SharesPrior(s)
    /\ \E s, t \in Slots : IsPrior(NewSlotValue(s)) /\ IsPrior(NewSlotValue(t))
                              /\ NewSlotValue(s) # NewSlotValue(t)

\* C16: with empirical widths 0 and only r = 1, every new prior has a sigma
\* equal to its mean, whatever the mean.
C16_RelativeSigmaIsMean ==
    (/\ ret.op = "mapper_from_gaussian_tuples"
     /\ ret.a = None
     /\ ret.r = <<1>>
     /\ \A i \in 1..Len(ret.arg) : ret.arg[i][2] = 0
     /\ ret.out.status = "ok")
    => \A g \in 1..Len(ret.out.priors) :
           ret.out.priors[g].sigma = ret.out.priors[g].mean

-----------------------------------------------------------------------------
(* Further claims about the mapper, checked under Spec. *)

\* A step that rebinds a field to a prior that exists already: the mapper's
\* fields change and no object is created.
IsShareStep == mapper_dict' # mapper_dict /\ ids' = ids
\* The field such a step rebinds.
ReboundSlot == CHOOSE s \in Slots : mapper_dict'[s[1]].prior_model[s[2]] # SlotValue(s)

\* C17 as stated: whenever a field is rebound to the prior of another field,
\* prior_count strictly decreases.
C17_ShareStrictlyDecreases ==
    [][IsShareStep => prior_count' < prior_count]_vars

\* The number of distinct priors the fields of the mapper hold.
DistinctPriors == Cardinality(ReachablePriors)

\* C17, amended: rebinding a field to the prior of another field never raises
\* prior_count, the number of distinct priors held; it lowers it, by exactly
\* one, exactly if the field held a prior that no other field holds, and
\* leaves it as it is otherwise.
C17_CountAfterShare ==
    IsShareStep =>
        IF IsPrior(SlotValue(ReboundSlot)) /\ ~SharesPrior(ReboundSlot)
        THEN DistinctPriors' = DistinctPriors - 1
        ELSE DistinctPriors' = DistinctPriors

C17_ShareNeverIncreases ==
    [](prior_count = DistinctPriors) /\ [][C17_CountAfterShare]_vars

\* A prior was dropped by a rebinding, and two fields share a prior while a
\* third holds another one.
C17_Witness ==
    /\ \E h \in 1..Len(priors) : priors[h] = Freed
    /\ \E s \in Slots : SharesPrior(s)
    /\ \E s, t \in Slots : IsPrior(SlotValue(s)) /\ IsPrior(SlotValue(t))
                              /\ SlotValue(s) # SlotValue(t)
    /\ ret = NoCall

-----------------------------------------------------------------------------
(* Claims about the result of a run. *)

\* C15: the Result of a completed run is consistent: its constant is the
\* best instance the adapter saw, its figure of merit that instance's
\* likelihood, and the means of the Gaussian priors of its variable, in prior
\* order, are the values the fields of the constant hold.
C15_ResultSelfConsistent ==
    pc = "completed" =>
        /\ result.constant = observed.first.constant
        /\ result.figure_of_merit = observed.max
        /\ result.variable.status = "ok"
        /\ LET pts == prior_tuples_ordered_by_id
           IN  \A i \in 1..Len(pts) : \A s \in Slots :
                   SlotValue(s) = <<"prior", pts[i].prior>> =>
                       result.variable.priors[i].mean
                           = result.constant[s[1]].object[s[2]]

-----------------------------------------------------------------------------
(* Claims about already-built objects. *)

InstanceOps == {"instance_from_unit_vector", "instance_from_physical_vector"}

\* The instance returned has an attribute of this name holding this object.
Carries(instance, name, obj) ==
    \E j \in 1..Len(instance) :
        /\ instance[j].name = name
        /\ instance[j].object = obj
        /\ \A i \in 1..Len(instance) : instance[i].name = name => i = j

C18_AddKeepsCount ==
    object_dict' # object_dict =>
        /\ Len(object_dict') = Len(object_dict) + 1
        /\ DistinctPriors' = DistinctPriors

C18_InstanceCarries ==
    (ret.op \in InstanceOps /\ ret.out.status = "ok") =>
        \A k \in 1..Len(object_dict) :
            Carries(ret.out.instance, object_dict[k].name, object_dict[k].value)

C18_OnlyObjects ==
    (ret.op \in InstanceOps /\ mapper_dict = <<>> /\ ret.arg = <<>>) =>
        /\ ret.out.status = "ok"
        /\ Len(ret.out.instance) = Len(object_dict)

\* C18: an already-built object assigned as a top-level attribute adds no
\* prior (prior_count, the number of distinct priors, is the same after the
\* assignment); every instance the mapper produces carries the attribute
\* with that object; a mapper holding only such objects resolves the empty
\* vector to an instance having all of them.
C18_PassThroughObjects ==
    /\ [](prior_count = DistinctPriors)
    /\ [][C18_AddKeepsCount]_vars
    /\ [](C18_InstanceCarries /\ C18_OnlyObjects)

C18_Witness ==
    /\ ret.op \in InstanceOps
    /\ ret.out.status = "ok"
    /\ Len(object_dict) = 2
    /\ prior_count = 2
    /\ Len(ret.arg) = 2

C18_WitnessOnlyObjects ==
    /\ ret.op \in InstanceOps
    /\ mapper_dict = <<>>
    /\ ret.arg = <<>>
    /\ Len(object_dict) = 2
    /\ object_dict[1].value # object_dict[2].value

-----------------------------------------------------------------------------
(* Claims about equality. *)

SetOfPriors(pmts) == {priors_of(pmts)[i] : i \in 1..Len(priors_of(pmts))}
NameMapping(pmts) == {<<pmts[i].name, pmts[i].prior_model>> : i \in 1..Len(pmts)}

\* C19: two mappers compare equal if and only if they have the same set of
\* distinct priors and the same mapping from top-level name to prior model,
\* whatever the order in which the prior models were added to each.
C19_EqualIffSameContent ==
    ret.op = "__eq__" =>
        (ret.out <=> /\ SetOfPriors(mapper_dict) = SetOfPriors(ret.arg)
                     /\ NameMapping(mapper_dict) = NameMapping(ret.arg))

-----------------------------------------------------------------------------
(* Claims about the exceptions of the analysis. *)

\* C20: an exception other than FitException raised by the analysis in an
\* evaluation leaves the adapter and fit(): the run has failed with that
\* exception, no Result was returned, and the visualisation and the backup
\* that end a completed run were not made.
C20_OtherExceptionsPropagate ==
    (last.evaluated /\ last.raises \in OtherExceptions) =>
        /\ pc = "failed"
        /\ raised = last.raises
        /\ result = NoResult
        /\ ~observed.final_visualize
        /\ ~observed.final_backup

C20_Witness ==
    /\ driver = "DownhillSimplex"
    /\ last.kind = "call"
    /\ last.call >= 2
    /\ last.raises \in OtherExceptions
    /\ observed.evaluations >= 1
    /\ pc = "failed"

C20_WitnessGridSearch ==
    /\ driver = "GridSearch"
    /\ last.kind = "call"
    /\ last.call >= 2
    /\ last.raises \in OtherExceptions
    /\ observed.evaluations >= 1
    /\ is_checkpoint
    /\ pc = "failed"

-----------------------------------------------------------------------------
(* Claims about backup and restore. *)

\* What a failed copy of a file raises: the OSError of shutil.copy, or the
\* shutil.Error of copytree.
CopyErrors == {"PermissionError", "shutil.Error"}

\* C21: a copy of a file that fails inside backup() or restore() is logged
\* and swallowed: no such error leaves the constructor of the optimizer, an
\* adapter call or fit(); without a backup folder restore() raises nothing.
C21_CopyFailuresSwallowed == raised \notin CopyErrors

-----------------------------------------------------------------------------
(* Claims about a crash inside save_checkpoint. *)

C22_Killed == ~uninterrupted.interrupted /\ uninterrupted'.interrupted

\* C22: whenever the process is killed, inside save_checkpoint included, the
\* checkpoint file the next start finds is the complete record the call
\* found or the complete record the call wrote.
C22_CrashLeavesCompleteRecord ==
    [][C22_Killed => uninterrupted'.file \in
                        {checkpoint} \cup (IF last.wrote_checkpoint
                                            THEN {last.found} ELSE {})]_vars

\* A record cut short is not resumed from: fit() fails on reading it.
C22_PartialRecordNotResumed ==
    (/\ uninterrupted.finished
     /\ is_checkpoint
     /\ Len(checkpoint_array) < 5
     /\ pc # "initialized")
        => (pc = "failed" /\ raised = "IndexError" /\ observed = NoObservation)

C22_PartialRecordFound ==
    /\ uninterrupted.finished
    /\ checkpoint = EmptyFile
    /\ raised = "IndexError"

-----------------------------------------------------------------------------
(* Claims about concurrent calls of the adapter. *)

AllReturned == threads # NoThreads /\ \A t \in Threads : threads[t].pc = "done"

\* C23: when the adapter is called by several threads at once, then after
\* all calls have returned max_likelihood is the largest likelihood
\* evaluated, result holds an instance evaluated with that likelihood, and
\* the count of the backup counter is the number of calls made to it.
C23_AsIfSerialised ==
    AllReturned =>
        /\ fitness.max_likelihood = observed.max
        /\ observed.max > NegInf =>
               /\ fitness.result.figure_of_merit = observed.max
               /\ \E t \in Threads :
                      /\ threads[t].likelihood = observed.max
                      /\ threads[t].instance = fitness.result.constant
        /\ fitness.should_backup.interval # -1 =>
               fitness.should_backup.count = observed.evaluations

-----------------------------------------------------------------------------
(* Claims about the backup counter. *)

\* The backup of the optimizer folder ran in the last adapter call exactly
\* if the number of the call is a multiple of the backup interval.
BackupOnMultiples ==
    IF config.backup_interval >= 1
    THEN last.backed_up <=> last.call % config.backup_interval = 0
    ELSE ~last.backed_up

\* C24: with a backup interval N >= 1, backup() runs during the run on
\* exactly the adapter calls numbered N, 2N, 3N, ..., whatever the other
\* intervals and whether the evaluation returned or ended in a FitException;
\* with the interval -1 it never runs.
C24_BackupEveryNthCall ==
    (last.kind = "call" /\ last.raises \in {"none", "FitException"})
        => BackupOnMultiples

\* The same for runs in which every evaluation so far returned.
C24_BackupEveryNthReturnedCall ==
    (last.kind = "call" /\ observed.evaluations = observed.calls)
        => BackupOnMultiples

-----------------------------------------------------------------------------
(* Claims about the instances of a grid search. *)

\* C25: the instances of the Result GridSearch.fit returns hold exactly one
\* (instance, fit) for each point of the grid, also when the run was resumed
\* from a checkpoint and when evaluations ended in a FitException.
C25_OneInstancePerGridPoint ==
    (driver = "GridSearch" /\ pc = "completed") =>
        /\ Len(result.instances) = Len(GridPoints)
        /\ \A i \in 1..Len(GridPoints) :
               \E j \in 1..Len(result.instances) :
                   result.instances[j][1]
                       = instance_from_unit_vector(GridPoints[i]).instance

\* The same for a run that started without a checkpoint and in which every
\* evaluation returned.
C25_OneInstancePerEvaluatedPoint ==
    (/\ driver = "GridSearch"
     /\ pc = "completed"
     /\ ~previous.exists
     /\ observed.evaluations = observed.calls) => C25_OneInstancePerGridPoint

-----------------------------------------------------------------------------
(* Claims about copy_with_name_extension. *)

-----------------------------------------------------------------------------
(* Claims about the intermediate output of MultiNest. *)

\* A step that is a call of the MultiNest adapter whose evaluation returned a
\* likelihood above the best of the calls before it.
NewBestCall ==
    /\ driver = "MultiNest"
    /\ observed'.calls = observed.calls + 1
    /\ last'.kind = "call"
    /\ last'.raises = "none"
    /\ last'.returned > fitness.max_likelihood

\* C27: every call of the MultiNest adapter whose likelihood is a new best
\* adds one to accepted_samples, and when the count reaches
\* number_of_accepted_samples_between_output the adapter calls
\* output_results(during_analysis=True) and sets the count back to 0.
C27_NewBestCountsTowardsOutput ==
    [][NewBestCall =>
          IF fitness.accepted_samples + 1
                 = config.number_of_accepted_samples_between_output
          THEN fitness'.accepted_samples = 0 /\ last'.output_results
          ELSE /\ fitness'.accepted_samples = fitness.accepted_samples + 1
               /\ ~last'.output_results]_vars

\* What the adapter does: the count stays at 0 and nothing is written during
\* the run.
C27_NeverCounted ==
    driver = "MultiNest" =>
        fitness.accepted_samples = 0 /\ ~last.output_results

-----------------------------------------------------------------------------
(* Claims about the result of a run without a successful evaluation. *)

\* A step in which fit goes on after the external optimizer (fmin, the grid)
\* has returned: the run ends and the step is not a call of the adapter.
OptimizerReturned ==
    /\ driver \in {"DownhillSimplex", "GridSearch"}
    /\ pc = "running"
    /\ pc' \in {"completed", "failed"}
    /\ last' = last

\* C28: whenever the external optimizer returns normally, DownhillSimplex.fit
\* and GridSearch.fit return a Result with a best instance, also when no
\* evaluation of the run improved on the initial best score.
C28_ResultAfterOptimizerReturns ==
    [][OptimizerReturned =>
          /\ pc' = "completed"
          /\ ~result'.is_none]_vars

\* The same for runs in which an evaluation did improve on the initial score.
C28_ResultAfterImprovement ==
    [][(OptimizerReturned /\ ~fitness.result.is_none
            /\ (driver = "GridSearch" => fitness.best_cube # NoCube)) =>
          /\ pc' = "completed"
          /\ ~result'.is_none]_vars

-----------------------------------------------------------------------------
(* Claims about the vector positions of a refined mapper. *)

\* prior_tuples_ordered_by_id of a mapper other than this one: its prior
\* model tuples pmts and its prior objects prs.
sorted_insert_in(prs, s, t) ==
    LET n == Cardinality({i \in 1..Len(s) : prs[s[i].prior].id <= prs[t.prior].id})
    IN  SubSeq(s, 1, n) \o <<t>> \o SubSeq(s, n + 1, Len(s))

RECURSIVE sorted_by_id_in(_, _, _)
sorted_by_id_in(prs, L, acc) ==
    IF L = <<>> THEN acc
    ELSE sorted_by_id_in(prs, Tail(L), sorted_insert_in(prs, acc, Head(L)))

prior_tuples_ordered_by_id_of(pmts, prs) ==
    sorted_by_id_in(prs, dict_values(prior_tuples_of(pmts), <<>>), <<>>)

\* The ordered prior tuples of the mapper a refinement returned.
RefinedOrdered == prior_tuples_ordered_by_id_of(ret.out.mapper_dict, ret.out.priors)

\* C29: the prior at position i of the refined mapper's
\* prior_tuples_ordered_by_id is the Gaussian prior that replaced the prior at
\* position i of the original mapper, so every position of a physical vector
\* addresses the same fields in the refined mapper as in the original one.
C29_RefinementKeepsPositions ==
    (ret.op = "mapper_from_gaussian_tuples" /\ ret.out.status = "ok") =>
        LET pts == prior_tuples_ordered_by_id
            new == RefinedOrdered
        IN  /\ Len(new) = Len(pts)
            /\ \A i \in 1..Len(pts) :
                   /\ new[i].prior = gaussian_arguments(pts)[pts[i].prior]
                   /\ ret.out.priors[new[i].prior].mean = ret.arg[i][1]
                   /\ \A s \in Slots :
                          SlotValue(s) = <<"prior", pts[i].prior>>
                              <=> NewSlotValue(s) = <<"prior", new[i].prior>>

\* A refined mapper of two priors or more whose dict order is not its id
\* order and whose means differ from one position to the next.
C29_Witness ==
    /\ ret.op = "mapper_from_gaussian_tuples"
    /\ ret.out.status = "ok"
    /\ prior_count >= 2
    /\ prior_tuples # prior_tuples_ordered_by_id
    /\ ret.arg[1][1] # ret.arg[2][1]
    /\ Len(RefinedOrdered) = prior_count

-----------------------------------------------------------------------------
(* Claims about the search over a grid of priors. *)

\* What a field holds in the mapper of the k-th optimizer.
GridSlotValue(k, s) == ret.out[k].model_mapper.mapper_dict[s[1]].prior_model[s[2]]
GridPriorOf(k, s) == ret.out[k].model_mapper.priors[GridSlotValue(k, s)[2]]

\* One optimizer per cell of the grid over the caller's sequence; in the
\* optimizer named by the lower corners (v_1, ..., v_n) the i-th prior of the
\* sequence is a uniform prior on [v_i, v_i + step_size] and every other
\* prior is the object it was.
PriorGridAsStated ==
    LET cells == make_lists(Len(ret.arg), ret.step_size)
    IN  /\ Len(ret.out) = Len(cells)
        /\ \A k \in 1..Len(ret.out) :
               /\ ret.out[k].values = cells[k]
               /\ ret.out[k].model_mapper.status = "ok"
               /\ \A s \in Slots :
                      IsPrior(SlotValue(s)) =>
                          /\ IsPrior(GridSlotValue(k, s))
                          /\ \A i \in 1..Len(ret.arg) :
                                 SlotValue(s)[2] = ret.arg[i] =>
                                     /\ GridPriorOf(k, s).lower_limit
                                            = cells[k][i] * ret.step_size
                                     /\ GridPriorOf(k, s).upper_limit
                                            = cells[k][i] * ret.step_size
                                                  + ret.step_size
                          /\ (\A i \in 1..Len(ret.arg) :
                                  SlotValue(s)[2] # ret.arg[i]) =>
                                     /\ GridSlotValue(k, s) = SlotValue(s)
                                     /\ GridPriorOf(k, s) = priors[SlotValue(s)[2]]

\* C30: GridSearch.fit of grid_search.py runs exactly one optimizer per cell
\* of the grid, and in the optimizer named by the lower corners (v_1, ...,
\* v_n) the i-th prior of grid_priors is replaced by a uniform prior on
\* [v_i, v_i + step_size] while every other prior is kept as the same
\* object, for any sequence grid_priors, also one that lists a prior twice.
C30_OneOptimizerPerCell ==
    ret.op = "GridSearch.fit" => PriorGridAsStated

\* The same for a sequence of distinct priors that the set iterates in the
\* order of the sequence.
C30_DistinctPriorsInSetOrder ==
    (ret.op = "GridSearch.fit" /\ ret.order = ret.arg) => PriorGridAsStated

\* A sequence of two distinct priors iterated in the order of the sequence,
\* in a mapper that has a third prior.
C30_SetOrderReached ==
    /\ ret.op = "GridSearch.fit"
    /\ ret.order = ret.arg
    /\ Len(ret.arg) = 2
    /\ ret.step_size = 50
    /\ prior_count = 3

====
